---- MODULE Spec2Model ----
(***************************************************************************)
(* Model of pycask's record-level log layer: the entry codec (models.py),  *)
(* the append writer (writer.py) and the random-access reader (reader.py). *)
(*                                                                         *)
(* Conventions.  A byte string is a sequence of integers 0..255.  A text   *)
(* key is the sequence of its Unicode code points.  A 32-bit checksum is   *)
(* kept as its four big-endian bytes, because an unsigned 32-bit value     *)
(* does not fit the model checker's integers; every other integer field is *)
(* a plain integer and is packed big-endian as struct.pack('!...') does.   *)
(***************************************************************************)
EXTENDS Integers, Sequences, FiniteSets, TLC

(***************************************************************************)
(* Byte-level helpers                                                      *)
(***************************************************************************)

RECURSIVE PackBE(_, _)
\* struct.pack('!I', n) for w = 4 and struct.pack('!Q', n) for w = 8
PackBE(n, w) ==
  IF w = 0 THEN << >> ELSE Append(PackBE(n \div 256, w - 1), n % 256)

\* a read that fills up with zero bytes what the file does not hold
SliceFilled(b, from, to) ==
  [ i \in 1..(to - from + 1) |-> IF from + i - 1 <= Len(b) THEN b[from + i - 1] ELSE 0 ]

\* b[from..to] in 1-based positions, clipped to the string: what a read of
\* (to - from + 1) bytes at position from - 1 returns on a file that is b
Slice(b, from, to) ==
  IF to > Len(b)
    THEN (IF from > Len(b) THEN << >> ELSE SubSeq(b, from, Len(b)))
    ELSE SubSeq(b, from, to)

RECURSIVE XorBits(_, _, _)
\* bitwise exclusive or of the low n bits of a and b
XorBits(a, b, n) ==
  IF n = 0 THEN 0
  ELSE ((a + b) % 2) + 2 * XorBits(a \div 2, b \div 2, n - 1)

RECURSIVE Tabulate(_, _, _)
\* the tuple << F(lo), ..., F(hi) >>
Tabulate(F(_), lo, hi) ==
  IF lo = hi THEN << F(lo) >>
  ELSE LET mid == (lo + hi) \div 2
       IN Tabulate(F, lo, mid) \o Tabulate(F, mid + 1, hi)

\* XorTable[a + 1][b + 1] is a ^ b for two 4-bit values, computed once
XorTable ==
  LET Row(a) == LET Cell(b) == XorBits(a, b, 4) IN Tabulate(Cell, 0, 15)
  IN Tabulate(Row, 0, 15)

\* a ^ b for two bytes
XorByte(a, b) ==
  16 * XorTable[(a \div 16) + 1][(b \div 16) + 1] + XorTable[(a % 16) + 1][(b % 16) + 1]

\* exclusive or of two 32-bit words given as four big-endian bytes
Xor32(x, y) ==
  << XorByte(x[1], y[1]), XorByte(x[2], y[2]),
     XorByte(x[3], y[3]), XorByte(x[4], y[4]) >>

\* x >> 1 on a 32-bit word given as four big-endian bytes
Shr1(x) ==
  << x[1] \div 2, (x[2] \div 2) + (x[1] % 2) * 128,
     (x[3] \div 2) + (x[2] % 2) * 128, (x[4] \div 2) + (x[3] % 2) * 128 >>

\* x >> 8
Shr8(x) == << 0, x[1], x[2], x[3] >>

\* the reflected CRC-32 polynomial 0xEDB88320 used by zlib
CrcPoly == << 237, 184, 131, 32 >>

RECURSIVE CrcTableEntry(_, _)
CrcTableEntry(c, rounds) ==
  IF rounds = 0 THEN c
  ELSE CrcTableEntry(IF c[4] % 2 = 1 THEN Xor32(CrcPoly, Shr1(c)) ELSE Shr1(c),
                     rounds - 1)

\* zlib's table: CrcTable[i + 1] is the CRC of the single byte i, computed once
CrcTable ==
  LET Entry(i) == CrcTableEntry(<< 0, 0, 0, i >>, 8) IN Tabulate(Entry, 0, 255)

RECURSIVE CrcUpdate(_, _, _)
CrcUpdate(c, data, i) ==
  IF i > Len(data) THEN c
  ELSE LET next == Xor32(CrcTable[XorByte(c[4], data[i]) + 1], Shr8(c))
       IN IF Len(next) = 4 THEN CrcUpdate(next, data, i + 1) ELSE next

\* zlib.crc32(data) & 0xffffffff, as four big-endian bytes
crc32(data) ==
  Xor32(CrcUpdate(<< 255, 255, 255, 255 >>, data, 1), << 255, 255, 255, 255 >>)

(***************************************************************************)
(* UTF-8                                                                   *)
(***************************************************************************)

\* the UTF-8 encoding of one code point (surrogates are not encodable)
Utf8Char(c) ==
  IF c < 128 THEN << c >>
  ELSE IF c < 2048 THEN << 192 + (c \div 64), 128 + (c % 64) >>
  ELSE IF c < 65536
    THEN << 224 + (c \div 4096), 128 + ((c \div 64) % 64), 128 + (c % 64) >>
  ELSE << 240 + (c \div 262144), 128 + ((c \div 4096) % 64),
          128 + ((c \div 64) % 64), 128 + (c % 64) >>

RECURSIVE encode_utf8(_)
\* key.encode('utf-8')
encode_utf8(s) ==
  IF s = << >> THEN << >> ELSE Utf8Char(Head(s)) \o encode_utf8(Tail(s))

IsCont(b) == b >= 128 /\ b < 192

\* the result of decoding a byte string that is not valid UTF-8
InvalidUtf8 == << -1 >>

RECURSIVE decode_utf8(_)
\* key_data.decode('utf-8'): the code points, or InvalidUtf8 where Python
\* raises UnicodeDecodeError (stray or missing continuation byte, overlong
\* form, surrogate, code point above 0x10FFFF)
decode_utf8(b) ==
  IF b = << >> THEN << >>
  ELSE
    LET b1 == b[1]
        n  == IF b1 < 128 THEN 1
              ELSE IF b1 >= 194 /\ b1 < 224 THEN 2
              ELSE IF b1 >= 224 /\ b1 < 240 THEN 3
              ELSE IF b1 >= 240 /\ b1 < 245 THEN 4
              ELSE 0
    IN IF n = 0 \/ Len(b) < n \/ \E i \in 2..n : ~IsCont(b[i])
         THEN InvalidUtf8
         ELSE
           LET c == IF n = 1 THEN b1
                    ELSE IF n = 2 THEN (b1 - 192) * 64 + (b[2] - 128)
                    ELSE IF n = 3
                      THEN (b1 - 224) * 4096 + (b[2] - 128) * 64 + (b[3] - 128)
                    ELSE (b1 - 240) * 262144 + (b[2] - 128) * 4096
                         + (b[3] - 128) * 64 + (b[4] - 128)
               bad == \/ n = 3 /\ c < 2048
                      \/ n = 3 /\ c >= 55296 /\ c < 57344
                      \/ n = 4 /\ c < 65536
                      \/ n = 4 /\ c > 1114111
               rest == decode_utf8(SubSeq(b, n + 1, Len(b)))
           IN IF bad \/ rest = InvalidUtf8 THEN InvalidUtf8
              ELSE << c >> \o rest

(***************************************************************************)
(* Bounds and inputs                                                       *)
(***************************************************************************)

\* number of write_entry calls on an open Writer over a whole behaviour
MaxWrites == 2
\* number of Writer instances constructed over a whole behaviour
MaxWriters == 2
\* number of read_entry calls over a whole behaviour
MaxReads == 2
\* number of I/O failures the operating system reports over a whole behaviour
MaxFaults == 1
\* number of times a data file is damaged from outside over a whole behaviour
MaxCorrupt == 1

\* read_entry calls made with a Location that write_entry never returned
MaxStray == 1

\* read_entry calls in which the operating system fails a seek or a read
MaxReadFaults == 1

\* the max_file_size values a Writer is constructed with: 22 is filled exactly
\* by the 22-byte entry alone and makes the 30-byte entry oversized, 50 is
\* filled exactly by the 20-byte entry followed by the 30-byte entry
MaxFileSizes == { 22, 50 }

(***************************************************************************)
(* models.py: KVLocation and KVEntry                                       *)
(***************************************************************************)

HEADER_SIZE == 20

KVLocation(file_id, entry_offset, entry_size, timestamp) ==
  [ file_id |-> file_id, entry_offset |-> entry_offset,
    entry_size |-> entry_size, timestamp |-> timestamp ]

KVEntry(crc, timestamp, key_size, value_size, key, value) ==
  [ crc |-> crc, timestamp |-> timestamp, key_size |-> key_size,
    value_size |-> value_size, key |-> key, value |-> value ]

\* total_size counting the characters of the key instead of its UTF-8 bytes
total_size_chars(entry) == HEADER_SIZE + Len(entry.key) + Len(entry.value)

\* KVEntry.total_size
total_size(entry) == HEADER_SIZE + Len(encode_utf8(entry.key)) + Len(entry.value)

\* KVEntry.create with an explicit timestamp; crc = 0 until the writer sets it
create(key, value, timestamp) ==
  KVEntry(<< 0, 0, 0, 0 >>, timestamp, Len(encode_utf8(key)), Len(value), key, value)

\* the (key, value, timestamp) triples callers write:
\* ("", b"", 0), ("é", b"", 7) and ("hello", b"world", 1672531200)
Inputs ==
  { << << >>, << >>, 0 >>,
    << << 233 >>, << >>, 7 >>,
    << << 104, 101, 108, 108, 111 >>, << 119, 111, 114, 108, 100 >>, 1672531200 >> }

Entries == { create(i[1], i[2], i[3]) : i \in Inputs }

\* entries built with the constructor instead of create, as the tests build
\* them: one whose key_size field (10) is not the length of its key (5
\* bytes), and one whose sizes are right and whose crc field is 123456
DirectEntries ==
  { KVEntry(<< 0, 0, 0, 0 >>, 1672531200, 10, 5,
            << 104, 101, 108, 108, 111 >>, << 119, 111, 114, 108, 100 >>),
    KVEntry(PackBE(123456, 4), 1672531200, 5, 5,
            << 104, 101, 108, 108, 111 >>, << 119, 111, 114, 108, 100 >>) }

(***************************************************************************)
(* writer.py: pure helpers of KVWriter                                     *)
(***************************************************************************)

\* _calculate_crc computing the checksum only for an entry whose crc field
\* is 0, as create leaves it
_calculate_crc_if_zero(entry) ==
  LET data_for_crc == PackBE(entry.timestamp, 8) \o PackBE(entry.key_size, 4)
                      \o PackBE(entry.value_size, 4)
                      \o encode_utf8(entry.key) \o entry.value
  IN KVEntry(IF entry.crc = << 0, 0, 0, 0 >> THEN crc32(data_for_crc) ELSE entry.crc,
             entry.timestamp, entry.key_size, entry.value_size, entry.key,
             entry.value)

\* KVWriter._calculate_crc
_calculate_crc(entry) ==
  LET data_for_crc == PackBE(entry.timestamp, 8) \o PackBE(entry.key_size, 4)
                      \o PackBE(entry.value_size, 4)
                      \o encode_utf8(entry.key) \o entry.value
  IN KVEntry(crc32(data_for_crc), entry.timestamp, entry.key_size,
             entry.value_size, entry.key, entry.value)

\* _serialize_entry with the checksum field of the header left at zero
_serialize_entry_zero_crc(entry) ==
  LET header == << 0, 0, 0, 0 >> \o PackBE(entry.timestamp, 8)
                \o PackBE(entry.key_size, 4) \o PackBE(entry.value_size, 4)
  IN header \o encode_utf8(entry.key) \o entry.value

\* KVWriter._serialize_entry
_serialize_entry(entry) ==
  LET header == entry.crc \o PackBE(entry.timestamp, 8)
                \o PackBE(entry.key_size, 4) \o PackBE(entry.value_size, 4)
  IN header \o encode_utf8(entry.key) \o entry.value

\* _should_rotate_file rotating also when the entry exactly fills the file
_should_rotate_file_ge(offset, entry_size, max_size) == offset + entry_size >= max_size

\* _should_rotate_file rotating only out of a file that is already full
_should_rotate_file_full(offset, entry_size, max_size) == offset >= max_size

\* _should_rotate_file never rotating out of an empty active file
_should_rotate_file_nonempty(offset, entry_size, max_size) ==
  offset > 0 /\ offset + entry_size > max_size

\* KVWriter._should_rotate_file
_should_rotate_file(offset, entry_size, max_size) == offset + entry_size > max_size

\* current_offset advanced by the header's length only
advance_offset_by_header(offset, serialized_data) == offset + HEADER_SIZE

\* current_offset left where it was by a successful write
advance_offset_not(offset, serialized_data) == offset

\* write_entry's "self.current_offset += len(serialized_data)"
advance_offset(offset, serialized_data) == offset + Len(serialized_data)

(***************************************************************************)
(* reader.py: pure helpers of KVReader                                     *)
(***************************************************************************)

\* the largest size the model reads from a header: a larger one is outside
\* the model's range and is read as this value (no Location or file of the
\* model is that large)
Huge == 512 * 1024 * 1024

\* the largest timestamp the model reads from a header, likewise
HugeTime == Huge * 3 + (Huge - 1)

RECURSIVE UnpackBE(_, _)
\* struct.unpack of one big-endian unsigned field, saturating at cap
UnpackBE(b, cap) ==
  IF b = << >> THEN 0
  ELSE LET hi == UnpackBE(SubSeq(b, 1, Len(b) - 1), cap)
       IN IF hi > cap \div 256 THEN cap
          ELSE IF hi * 256 + b[Len(b)] > cap THEN cap
          ELSE hi * 256 + b[Len(b)]

NoEntry == KVEntry(<< >>, -1, -1, -1, << >>, << >>)

\* _verify_crc accepting whatever checksum is stored
_verify_crc_any(entry) == entry.crc = entry.crc

\* KVReader._verify_crc
_verify_crc(entry) ==
  LET data_to_check == PackBE(entry.timestamp, 8) \o PackBE(entry.key_size, 4)
                       \o PackBE(entry.value_size, 4)
                       \o encode_utf8(entry.key) \o entry.value
  IN crc32(data_to_check) = entry.crc

\* CorruptedEntryError.__init__(message, location = None, details = None):
\* the attributes of the exception; read_entry passes the message alone
CorruptedEntryError(message) ==
  [ message |-> message, location |-> "None", details |-> "None" ]

Raise(error, message) == [ error |-> error, message |-> message, entry |-> NoEntry ]

Return(entry) == [ error |-> "none", message |-> "", entry |-> entry ]

\* read_entry reading the key and the value before it compares the sizes of
\* the header with the size of the Location
read_entry_sizes_last(data, location) ==
  LET pos         == location.entry_offset
      header_data == Slice(data, pos + 1, pos + HEADER_SIZE)
  IN IF Len(header_data) # HEADER_SIZE
       THEN Raise("CorruptedEntryError", "Incomplete header")
     ELSE
       LET crc        == SubSeq(header_data, 1, 4)
           timestamp  == UnpackBE(SubSeq(header_data, 5, 12), HugeTime)
           key_size   == UnpackBE(SubSeq(header_data, 13, 16), Huge)
           value_size == UnpackBE(SubSeq(header_data, 17, 20), Huge)
           kpos       == pos + HEADER_SIZE
           key_data   == Slice(data, kpos + 1, kpos + key_size)
           vpos       == kpos + Len(key_data)
           value_data == Slice(data, vpos + 1, vpos + value_size)
           key        == decode_utf8(key_data)
           entry      == KVEntry(crc, timestamp, key_size, value_size, key, value_data)
       IN IF Len(key_data) # key_size
            THEN Raise("CorruptedEntryError", "Incomplete key data")
          ELSE IF Len(value_data) # value_size
            THEN Raise("CorruptedEntryError", "Incomplete value data")
          ELSE IF HEADER_SIZE + key_size + value_size # location.entry_size
            THEN Raise("CorruptedEntryError", "Size mismatch")
          ELSE IF key = InvalidUtf8
            THEN Raise("CorruptedEntryError", "Invalid UTF-8 key data")
          ELSE IF ~_verify_crc(entry)
            THEN Raise("CorruptedEntryError", "CRC check failed")
          ELSE Return(entry)

\* read_entry trusting the sizes of the header, whatever size the Location has
read_entry_any_size(data, location) ==
  LET pos         == location.entry_offset
      header_data == Slice(data, pos + 1, pos + HEADER_SIZE)
  IN IF Len(header_data) # HEADER_SIZE
       THEN Raise("CorruptedEntryError", "Incomplete header")
     ELSE
       LET crc        == SubSeq(header_data, 1, 4)
           timestamp  == UnpackBE(SubSeq(header_data, 5, 12), HugeTime)
           key_size   == UnpackBE(SubSeq(header_data, 13, 16), Huge)
           value_size == UnpackBE(SubSeq(header_data, 17, 20), Huge)
           kpos       == pos + HEADER_SIZE
           key_data   == Slice(data, kpos + 1, kpos + key_size)
           vpos       == kpos + Len(key_data)
           value_data == Slice(data, vpos + 1, vpos + value_size)
           key        == decode_utf8(key_data)
           entry      == KVEntry(crc, timestamp, key_size, value_size, key, value_data)
       IN IF Len(key_data) # key_size
            THEN Raise("CorruptedEntryError", "Incomplete key data")
          ELSE IF Len(value_data) # value_size
            THEN Raise("CorruptedEntryError", "Incomplete value data")
          ELSE IF key = InvalidUtf8
            THEN Raise("CorruptedEntryError", "Invalid UTF-8 key data")
          ELSE IF ~_verify_crc(entry)
            THEN Raise("CorruptedEntryError", "CRC check failed")
          ELSE Return(entry)

\* KVReader.read_entry once the handle is open: data is the content of the
\* file, seek(entry_offset) then three reads, each returning the bytes that
\* are there (fewer than asked at the end of the file)
read_entry(data, location) ==
  LET pos         == location.entry_offset
      header_data == Slice(data, pos + 1, pos + HEADER_SIZE)
  IN IF Len(header_data) # HEADER_SIZE
       THEN Raise("CorruptedEntryError", "Incomplete header")
     ELSE
       LET crc        == SubSeq(header_data, 1, 4)
           timestamp  == UnpackBE(SubSeq(header_data, 5, 12), HugeTime)
           key_size   == UnpackBE(SubSeq(header_data, 13, 16), Huge)
           value_size == UnpackBE(SubSeq(header_data, 17, 20), Huge)
           expected_size == HEADER_SIZE + key_size + value_size
       IN IF key_size < 0 \/ value_size < 0
            THEN Raise("CorruptedEntryError", "Invalid sizes")
          ELSE IF expected_size # location.entry_size
            THEN Raise("CorruptedEntryError", "Size mismatch")
          ELSE
            LET kpos       == pos + HEADER_SIZE
                key_data   == Slice(data, kpos + 1, kpos + key_size)
                vpos       == kpos + Len(key_data)
                value_data == Slice(data, vpos + 1, vpos + value_size)
                key        == decode_utf8(key_data)
                entry      == KVEntry(crc, timestamp, key_size, value_size, key, value_data)
            IN IF Len(key_data) # key_size
                 THEN Raise("CorruptedEntryError", "Incomplete key data")
               ELSE IF Len(value_data) # value_size
                 THEN Raise("CorruptedEntryError", "Incomplete value data")
               ELSE IF key = InvalidUtf8
                 THEN Raise("CorruptedEntryError", "Invalid UTF-8 key data")
               ELSE IF ~_verify_crc(entry)
                 THEN Raise("CorruptedEntryError", "CRC check failed")
               ELSE Return(entry)

(***************************************************************************)
(* State                                                                   *)
(***************************************************************************)

VARIABLES
  files,               \* the data directory: file id |-> content of data_<id>.dat
  writer,              \* "absent": no Writer instance (none constructed yet, or
                       \* its process died); "live": an instance exists
  max_file_size,       \* KVWriter.max_file_size
  active_file_id,      \* KVWriter.active_file_id
  current_offset,      \* KVWriter.current_offset
  active_file_handle,  \* KVWriter.active_file_handle: None or an append handle
  w_ret,               \* outcome of the Writer's last call
  returned,            \* every Location handed out so far, with its entry
  file_handles,        \* KVReader.file_handles: file id |-> read handle
  reads,               \* the Reader's read_entry calls so far, with their outcomes
  count                \* calls made so far, for the bounds

vars == << files, writer, max_file_size, active_file_id, current_offset,
           active_file_handle, w_ret, returned, file_handles, reads, count >>

writer_vars == << writer, max_file_size, active_file_id, current_offset,
                  active_file_handle, w_ret >>

reader_vars == << file_handles, reads >>

\* the writer's handle from open(path, 'ab'): the file it appends to, whether
\* it was closed, and the bytes written to it that have not reached the file
Handle(file_id) == [ file_id |-> file_id, closed |-> FALSE, buf |-> << >> ]

None == [ file_id |-> -1, closed |-> TRUE, buf |-> << >> ]

NoLocation == KVLocation(-1, -1, -1, -1)

\* outcome of a Writer call: the error raised ("none" when it returned), the
\* operation and file id the error carries, and the Location returned
Ret(op, error, operation, path, location) ==
  [ op |-> op, error |-> error, operation |-> operation, path |-> path,
    location |-> location ]

NoRet == Ret("none", "none", "", -1, NoLocation)

Max(S) == CHOOSE x \in S : \A y \in S : y <= x

\* the directory after open(path, 'wb') on data_<id>.dat: the file exists
\* afterwards and is empty
OpenTruncate(fs, id) ==
  [ f \in DOMAIN fs \cup { id } |-> IF f \in DOMAIN fs \ { id } THEN fs[f] ELSE << >> ]

\* the directory after open(path, 'ab') on data_<id>.dat: the file exists
\* afterwards, with its content unchanged
OpenAppend(fs, id) ==
  [ f \in DOMAIN fs \cup { id } |-> IF f \in DOMAIN fs THEN fs[f] ELSE << >> ]

\* the directory after the bytes data have been appended to data_<id>.dat as
\* far as max_file_size allows and the rest to the next file
AppendSplit(fs, id, data) ==
  LET room == IF max_file_size > Len(fs[id]) THEN max_file_size - Len(fs[id]) ELSE 0
  IN IF Len(data) <= room THEN [ fs EXCEPT ![id] = @ \o data ]
     ELSE [ f \in DOMAIN fs \cup { id + 1 } |->
              IF f = id THEN fs[id] \o SubSeq(data, 1, room)
              ELSE (IF f \in DOMAIN fs THEN fs[f] ELSE << >>)
                   \o (IF f = id + 1 THEN SubSeq(data, room + 1, Len(data)) ELSE << >>) ]

\* the directory after the bytes data have been appended to data_<id>.dat
AppendTo(fs, id, data) ==
  IF data = << >> THEN fs ELSE [ fs EXCEPT ![id] = @ \o data ]

\* the decimal digits, a file name being a sequence of characters
Digits == << "0", "1", "2", "3", "4", "5", "6", "7", "8", "9" >>

RECURSIVE str(_)
\* str(n) for n >= 0
str(n) ==
  IF n < 10 THEN << Digits[n + 1] >>
  ELSE Append(str(n \div 10), Digits[(n % 10) + 1])

\* the name in KVWriter._get_file_path: f"data_{file_id}.dat"
_get_file_name(file_id) ==
  << "d", "a", "t", "a", "_" >> \o str(file_id) \o << ".", "d", "a", "t" >>

startswith(s, prefix) ==
  Len(s) >= Len(prefix) /\ SubSeq(s, 1, Len(prefix)) = prefix

endswith(s, suffix) ==
  Len(s) >= Len(suffix) /\ SubSeq(s, Len(s) - Len(suffix) + 1, Len(s)) = suffix

\* the value of each decimal digit
DigitValue ==
  [ c \in { Digits[i] : i \in 1..10 } |-> (CHOOSE i \in 1..10 : Digits[i] = c) - 1 ]

RECURSIVE DigitsValue(_)
\* the number a sequence of decimal digits denotes
DigitsValue(s) ==
  IF s = << >> THEN 0
  ELSE DigitsValue(SubSeq(s, 1, Len(s) - 1)) * 10 + DigitValue[s[Len(s)]]

\* one or more decimal digits
IsDigits(s) == s # << >> /\ \A i \in 1..Len(s) : s[i] \in DOMAIN DigitValue

\* int(s) on a string of signs, digits and other characters: the value, or
\* ValueError when s is not an optional sign followed by one or more digits
int(s) ==
  IF IsDigits(s) THEN [ error |-> "none", value |-> DigitsValue(s) ]
  ELSE IF s # << >> /\ s[1] = "+" /\ IsDigits(Tail(s))
    THEN [ error |-> "none", value |-> DigitsValue(Tail(s)) ]
  ELSE IF s # << >> /\ s[1] = "-" /\ IsDigits(Tail(s))
    THEN [ error |-> "none", value |-> 0 - DigitsValue(Tail(s)) ]
  ELSE [ error |-> "ValueError", value |-> 0 ]

\* the names in the data directory that are not data files: the two that
\* test_get_existing_file_ids puts there, and one whose id is not a number
OtherNames ==
  { << "d", "a", "t", "a", "_", "1", "0", ".", "l", "o", "g" >>,
    << "o", "t", "h", "e", "r", ".", "t", "x", "t" >>,
    << "d", "a", "t", "a", "_", "x", ".", "d", "a", "t" >> }

\* os.listdir(data_dir)
listdir(fs) == { _get_file_name(file_id) : file_id \in DOMAIN fs } \cup OtherNames

\* _get_existing_file_ids taking every name that starts with data_
_get_existing_file_ids_any_suffix(fs) ==
  { int(SubSeq(filename, 6, Len(filename) - 4)).value :
      filename \in { f \in listdir(fs) :
                       /\ startswith(f, << "d", "a", "t", "a", "_" >>)
                       /\ int(SubSeq(f, 6, Len(f) - 4)).error = "none" } }

\* KVWriter._get_existing_file_ids: the ids of the data files in the
\* directory, the names that are not data_<integer>.dat skipped
_get_existing_file_ids(fs) ==
  { int(SubSeq(filename, 6, Len(filename) - 4)).value :
      filename \in { f \in listdir(fs) :
                       /\ startswith(f, << "d", "a", "t", "a", "_" >>)
                       /\ endswith(f, << ".", "d", "a", "t" >>)
                       /\ int(SubSeq(f, 6, Len(f) - 4)).error = "none" } }

\* _initialize_active_file resuming the last file also when it is exactly full
_initialize_active_file_le(fs, max_size) ==
  LET existing_files == _get_existing_file_ids(fs)
  IN IF existing_files # {}
       THEN LET last_file_id == Max(existing_files)
                file_size    == Len(fs[last_file_id])
            IN IF file_size <= max_size
                 THEN [ active_file_id |-> last_file_id, current_offset |-> file_size ]
                 ELSE [ active_file_id |-> last_file_id + 1, current_offset |-> 0 ]
       ELSE [ active_file_id |-> 0, current_offset |-> 0 ]

\* _initialize_active_file resuming the lowest-numbered file instead of the last
_initialize_active_file_first(fs, max_size) ==
  LET existing_files == _get_existing_file_ids(fs)
  IN IF existing_files # {}
       THEN LET first_file_id == CHOOSE x \in existing_files :
                                   \A y \in existing_files : x <= y
                file_size     == Len(fs[first_file_id])
            IN IF file_size < max_size
                 THEN [ active_file_id |-> first_file_id, current_offset |-> file_size ]
                 ELSE [ active_file_id |-> Max(existing_files) + 1, current_offset |-> 0 ]
       ELSE [ active_file_id |-> 0, current_offset |-> 0 ]

\* _initialize_active_file resuming the last file at offset 0 instead of at
\* its size
_initialize_active_file_rewind(fs, max_size) ==
  LET existing_files == _get_existing_file_ids(fs)
  IN IF existing_files # {}
       THEN LET last_file_id == Max(existing_files)
            IN IF last_file_id \notin DOMAIN fs
                 THEN [ active_file_id |-> last_file_id + 1, current_offset |-> 0 ]
               ELSE IF Len(fs[last_file_id]) < max_size
                 THEN [ active_file_id |-> last_file_id, current_offset |-> 0 ]
                 ELSE [ active_file_id |-> last_file_id + 1, current_offset |-> 0 ]
       ELSE [ active_file_id |-> 0, current_offset |-> 0 ]

\* _initialize_active_file starting a new file on every restart
_initialize_active_file_fresh(fs, max_size) ==
  LET existing_files == _get_existing_file_ids(fs)
  IN IF existing_files # {}
       THEN [ active_file_id |-> Max(existing_files) + 1, current_offset |-> 0 ]
       ELSE [ active_file_id |-> 0, current_offset |-> 0 ]

\* KVWriter._initialize_active_file: the file id and offset a new Writer
\* starts at; os.path.getsize raises OSError on a file that is not there
_initialize_active_file(fs, max_size) ==
  LET existing_files == _get_existing_file_ids(fs)
  IN IF existing_files # {}
       THEN LET last_file_id == Max(existing_files)
            IN IF last_file_id \notin DOMAIN fs
                 THEN [ active_file_id |-> last_file_id + 1, current_offset |-> 0 ]
               ELSE IF Len(fs[last_file_id]) < max_size
                 THEN [ active_file_id |-> last_file_id,
                        current_offset |-> Len(fs[last_file_id]) ]
                 ELSE [ active_file_id |-> last_file_id + 1, current_offset |-> 0 ]
       ELSE [ active_file_id |-> 0, current_offset |-> 0 ]

Init ==
  /\ files = << >>
  /\ writer = "absent"
  /\ max_file_size = 0
  /\ active_file_id = 0
  /\ current_offset = 0
  /\ active_file_handle = None
  /\ w_ret = NoRet
  /\ returned = << >>
  /\ file_handles = << >>
  /\ reads = << >>
  /\ count = [ writes |-> 0, writers |-> 0, faults |-> 0, corrupt |-> 0 ]

(***************************************************************************)
(* Writer                                                                  *)
(***************************************************************************)

\* no Writer instance owns the directory: none was constructed, the last one
\* was closed, or its process died (one Writer at a time is the caller's duty)
NoActiveWriter == writer = "absent" \/ active_file_handle = None

\* __init__ leaving the creation of the active file to the first write
WriterInitLazy(max_size) ==
  /\ NoActiveWriter
  /\ count.writers < MaxWriters
  /\ LET start == _initialize_active_file(files, max_size)
     IN /\ active_file_id' = start.active_file_id
        /\ current_offset' = start.current_offset
        /\ files' = files
        /\ active_file_handle' = Handle(start.active_file_id)
  /\ writer' = "live"
  /\ max_file_size' = max_size
  /\ w_ret' = Ret("init", "none", "", -1, NoLocation)
  /\ count' = [ count EXCEPT !.writers = @ + 1 ]
  /\ UNCHANGED << returned, reader_vars >>

\* KVWriter.__init__ (data_dir, max_file_size = max_size)
WriterInit(max_size) ==
  /\ NoActiveWriter
  /\ count.writers < MaxWriters
  /\ LET start == _initialize_active_file(files, max_size)
     IN /\ active_file_id' = start.active_file_id
        /\ current_offset' = start.current_offset
        /\ files' = OpenAppend(files, start.active_file_id)
        /\ active_file_handle' = Handle(start.active_file_id)
  /\ writer' = "live"
  /\ max_file_size' = max_size
  /\ w_ret' = Ret("init", "none", "", -1, NoLocation)
  /\ count' = [ count EXCEPT !.writers = @ + 1 ]
  /\ UNCHANGED << returned, reader_vars >>

\* what write_entry does before its try block, for a Writer on the directory
\* fs with the given handle, active_file_id, current_offset and
\* max_file_size: the size, the rotation (_rotate_to_new_file: close, next
\* id, offset 0, open), the checksum, the remembered write position and the
\* serialized bytes
PrepareAt(fs, handle, file_id, offset, max_size, entry) ==
  LET entry_size == total_size(entry)
      rotate     == _should_rotate_file(offset, entry_size, max_size)
      entry_with_crc == _calculate_crc(entry)
  IN [ entry_size |-> entry_size,
       rotate |-> rotate,
       file_id |-> IF rotate THEN file_id + 1 ELSE file_id,
       write_offset |-> IF rotate THEN 0 ELSE offset,
       \* closing the old handle pushes what it still buffers into its file
       files |-> IF rotate
                   THEN OpenAppend(AppendTo(fs, handle.file_id, handle.buf),
                                   file_id + 1)
                   ELSE fs,
       handle |-> IF rotate THEN Handle(file_id + 1) ELSE handle,
       entry_with_crc |-> entry_with_crc,
       serialized_data |-> _serialize_entry(entry_with_crc) ]

\* the same for the Writer as it is
Prepare(entry) ==
  PrepareAt(files, active_file_handle, active_file_id, current_offset,
            max_file_size, entry)

\* write_entry on a closed Writer opening the active file again before it
\* fails
WriteEntryReopens(entry) ==
  /\ writer = "live"
  /\ active_file_handle = None
  /\ active_file_handle' = Handle(active_file_id)
  /\ w_ret' = Ret("write_entry", "WriterError", "", -1, NoLocation)
  /\ UNCHANGED << files, writer, max_file_size, active_file_id, current_offset,
                  returned, count, reader_vars >>

\* the message of the WriterError that write_entry raises, by the operation
\* it carries: none when the handle is None, "write_entry" from the except
\* clause of write_entry, "file_rotation" from _rotate_to_new_file and
\* "open_active_file" from _open_active_file
WriterErrorMessage(operation) ==
  IF operation = "" THEN "No active file handle available"
  ELSE IF operation = "write_entry" THEN "Failed to write entry"
  ELSE IF operation = "file_rotation" THEN "Failed to rotate to new file"
  ELSE IF operation = "open_active_file" THEN "Cannot open active file"
  ELSE ""

\* KVWriter.write_entry on a Writer whose handle is None
WriteEntryClosed(entry) ==
  /\ writer = "live"
  /\ active_file_handle = None
  /\ w_ret' = Ret("write_entry", "WriterError", "", -1, NoLocation)
  /\ UNCHANGED << files, writer, max_file_size, active_file_id, current_offset,
                  active_file_handle, returned, count, reader_vars >>

\* the caller's entry object when write_entry has returned: _calculate_crc
\* builds a new KVEntry for the checksum, and no statement of write_entry,
\* _calculate_crc or _serialize_entry assigns to a field of the object given
entry_after_write(entry) == entry

\* KVWriter.write_entry, every I/O call succeeding: rotate if needed, write
\* and flush, advance current_offset, return the Location. What was handed
\* out is remembered with the entry, the Writer instance, the number of the
\* write_entry call, the Writer's fields when the call was made, the
\* number of I/O failures that had happened by then, and the caller's entry
\* object as it was given and as the call left it
WriteEntry(entry) ==
  /\ writer = "live"
  /\ active_file_handle # None
  /\ count.writes < MaxWrites
  /\ \E p \in { Prepare(entry) } :
       /\ ~p.handle.closed
       /\ \E location \in { KVLocation(p.file_id, p.write_offset, p.entry_size,
                                       entry.timestamp) } :
            /\ files' = AppendTo(p.files, p.handle.file_id,
                                 p.handle.buf \o p.serialized_data)
            /\ active_file_handle' = [ p.handle EXCEPT !.buf = << >> ]
            /\ active_file_id' = p.file_id
            /\ current_offset' = advance_offset(p.write_offset, p.serialized_data)
            /\ w_ret' = Ret("write_entry", "none", "", -1, location)
            /\ returned' = Append(returned,
                                  [ location |-> location,
                                    entry |-> p.entry_with_crc,
                                    writer |-> count.writers,
                                    call |-> count.writes + 1,
                                    before |-> [ active_file_id |-> active_file_id,
                                                 current_offset |-> current_offset,
                                                 max_file_size |-> max_file_size ],
                                    faults |-> count.faults,
                                    given |-> entry,
                                    argument |-> entry_after_write(entry) ])
  /\ count' = [ count EXCEPT !.writes = @ + 1 ]
  /\ UNCHANGED << writer, max_file_size, reader_vars >>

\* close() keeping the handle when closing it fails, which it does when bytes
\* of a failed write are still waiting in its buffer
CloseUnlessFailing ==
  /\ writer = "live"
  /\ IF active_file_handle # None /\ active_file_handle.buf = << >>
       THEN /\ files' = files
            /\ active_file_handle' = None
       ELSE UNCHANGED << files, active_file_handle >>
  /\ w_ret' = Ret("close", "none", "", -1, NoLocation)
  /\ UNCHANGED << writer, max_file_size, active_file_id, current_offset,
                  returned, count, reader_vars >>

\* KVWriter.close
Close ==
  /\ writer = "live"
  /\ IF active_file_handle # None
       THEN /\ files' = IF active_file_handle.closed THEN files
                        ELSE AppendTo(files, active_file_handle.file_id,
                                      active_file_handle.buf)
            /\ active_file_handle' = None
       ELSE UNCHANGED << files, active_file_handle >>
  /\ w_ret' = Ret("close", "none", "", -1, NoLocation)
  /\ UNCHANGED << writer, max_file_size, active_file_id, current_offset,
                  returned, count, reader_vars >>

\* the Writer's process is gone: the instance and its handle with it
Gone ==
  /\ writer' = "absent"
  /\ max_file_size' = 0
  /\ active_file_id' = 0
  /\ current_offset' = 0
  /\ active_file_handle' = None
  /\ w_ret' = NoRet

\* the process dies between two calls: nothing is in flight
Crash ==
  /\ writer = "live"
  /\ active_file_handle # None
  /\ Gone
  /\ UNCHANGED << files, returned, count, reader_vars >>

\* the prefixes of n bytes in flight that can have reached the file when a
\* write is cut short: nothing, a torn header, or all of them
Cuts(n) == { c \in { 0, 10, n } : c <= n }

\* the process dies inside write_entry, after the rotation if there is one:
\* some prefix of the bytes in flight has reached the file, and no Location
\* was returned
WriteEntryCrash(entry) ==
  /\ writer = "live"
  /\ active_file_handle # None
  /\ count.writes < MaxWrites
  /\ \E p \in { Prepare(entry) } :
       /\ ~p.handle.closed
       /\ \E data \in { p.handle.buf \o p.serialized_data } :
            \E c \in Cuts(Len(data)) :
              files' = AppendTo(p.files, p.handle.file_id, SubSeq(data, 1, c))
  /\ Gone
  /\ count' = [ count EXCEPT !.writes = @ + 1 ]
  /\ UNCHANGED << returned, reader_vars >>

(***************************************************************************)
(* Writer: I/O failures reported by the operating system                   *)
(***************************************************************************)

\* KVWriter.write_entry when the flush raises OSError (disk full, file size
\* limit, I/O error): the rotation, if there was one, has been done; a proper
\* prefix of the bytes in flight has reached the file and the handle keeps
\* the rest; the except clause raises WriterError and current_offset was
\* not advanced
WriteEntryFail(entry) ==
  /\ writer = "live"
  /\ active_file_handle # None
  /\ count.writes < MaxWrites
  /\ count.faults < MaxFaults
  /\ \E p \in { Prepare(entry) } :
       /\ ~p.handle.closed
       /\ \E data \in { p.handle.buf \o p.serialized_data } :
            \E c \in Cuts(Len(data)) :
              /\ c < Len(data)
              /\ files' = AppendTo(p.files, p.handle.file_id, SubSeq(data, 1, c))
              /\ active_file_handle' =
                   [ p.handle EXCEPT !.buf = SubSeq(data, c + 1, Len(data)) ]
       /\ active_file_id' = p.file_id
       /\ current_offset' = p.write_offset
       /\ w_ret' = Ret("write_entry", "WriterError", "write_entry", p.file_id,
                       NoLocation)
  /\ count' = [ count EXCEPT !.writes = @ + 1, !.faults = @ + 1 ]
  /\ UNCHANGED << writer, max_file_size, returned, reader_vars >>

\* KVWriter.write_entry when the rotation's open raises OSError: the old
\* handle has been closed, active_file_id and current_offset have moved on,
\* and _open_active_file's WriterError passes through _rotate_to_new_file
\* (whose except clause catches OSError only) with the closed handle left
\* in active_file_handle
RotateOpenFail(entry) ==
  /\ writer = "live"
  /\ active_file_handle # None
  /\ count.writes < MaxWrites
  /\ count.faults < MaxFaults
  /\ _should_rotate_file(current_offset, total_size(entry), max_file_size)
  /\ files' = IF active_file_handle.closed THEN files
              ELSE AppendTo(files, active_file_handle.file_id,
                            active_file_handle.buf)
  /\ active_file_handle' =
       [ active_file_handle EXCEPT !.closed = TRUE, !.buf = << >> ]
  /\ active_file_id' = active_file_id + 1
  /\ current_offset' = 0
  /\ w_ret' = Ret("write_entry", "WriterError", "open_active_file",
                  active_file_id + 1, NoLocation)
  /\ count' = [ count EXCEPT !.writes = @ + 1, !.faults = @ + 1 ]
  /\ UNCHANGED << writer, max_file_size, returned, reader_vars >>

\* KVWriter.write_entry on a handle that an earlier failed rotation left
\* closed, when this call does not rotate: write() on a closed file raises
\* ValueError, which the except clause does not catch
WriteEntryValueError(entry) ==
  /\ writer = "live"
  /\ active_file_handle # None
  /\ \E p \in { Prepare(entry) } : p.handle.closed
  /\ w_ret' = Ret("write_entry", "ValueError", "", -1, NoLocation)
  /\ UNCHANGED << files, writer, max_file_size, active_file_id, current_offset,
                  active_file_handle, returned, count, reader_vars >>

(***************************************************************************)
(* The data files damaged from outside, as the tests damage them           *)
(***************************************************************************)

\* the content after f.seek(pos); f.write(bytes) on a file opened 'r+b'
WriteAt(data, pos, bytes) ==
  SubSeq(data, 1, pos) \o bytes \o SubSeq(data, pos + Len(bytes) + 1, Len(data))

\* the damages done to the entry at a Location: the stored checksum, the
\* key_size field, or the first key bytes overwritten
Damages ==
  { [ at |-> 0,  bytes |-> << 255, 255, 255, 255 >> ],
    [ at |-> 12, bytes |-> << 255, 255, 255, 255 >> ],
    [ at |-> 20, bytes |-> << 255, 254, 253, 252 >> ] }

\* the places, counted from the start of an entry, where a file is cut:
\* inside the header, inside the key, inside the value
Truncations == { 10, 22, 26 }

\* bytes of the entry at location are overwritten in place; no Writer is
\* active and the Reader holds no handle on the file at that moment (the
\* tests damage a file after closing the Writer and before they construct
\* the Reader)
Overwrite(location, damage) ==
  /\ count.corrupt < MaxCorrupt
  /\ NoActiveWriter
  /\ location.file_id \in DOMAIN files
  /\ location.file_id \notin DOMAIN file_handles
  /\ location.entry_offset + damage.at <= Len(files[location.file_id])
  /\ files' = [ files EXCEPT ![location.file_id] =
                  WriteAt(@, location.entry_offset + damage.at, damage.bytes) ]
  /\ count' = [ count EXCEPT !.corrupt = @ + 1 ]
  /\ UNCHANGED << writer_vars, returned, reader_vars >>

\* f.truncate(n) cuts the file inside the entry at location
Truncate(location, n) ==
  /\ count.corrupt < MaxCorrupt
  /\ NoActiveWriter
  /\ location.file_id \in DOMAIN files
  /\ location.file_id \notin DOMAIN file_handles
  /\ location.entry_offset + n < Len(files[location.file_id])
  /\ files' = [ files EXCEPT ![location.file_id] =
                  SubSeq(@, 1, location.entry_offset + n) ]
  /\ count' = [ count EXCEPT !.corrupt = @ + 1 ]
  /\ UNCHANGED << writer_vars, returned, reader_vars >>

(***************************************************************************)
(* Reader                                                                  *)
(***************************************************************************)

\* the Locations the caller's index holds: the ones write_entry returned
IndexedLocations == { returned[i].location : i \in 1..Len(returned) }

\* _get_file_handle keeping only the handle it returns
_get_file_handle_only(handles, fs, file_id) ==
  IF file_id \notin DOMAIN fs THEN handles
  ELSE [ f \in { file_id } |->
           IF f \in DOMAIN handles THEN handles[f]
           ELSE [ file_id |-> file_id, opened_at |-> Len(returned) ] ]

\* _get_file_handle dropping the cache when the file is missing
_get_file_handle_reset(handles, fs, file_id) ==
  IF file_id \notin DOMAIN fs THEN << >>
  ELSE IF file_id \in DOMAIN handles THEN handles
  ELSE [ f \in DOMAIN handles \cup { file_id } |->
           IF f \in DOMAIN handles THEN handles[f]
           ELSE [ file_id |-> file_id, opened_at |-> Len(returned) ] ]

\* _get_file_handle opening a file only if no earlier read_entry of this
\* Reader had a handle on it: a file whose handle was closed stays closed
_get_file_handle_once(handles, fs, file_id) ==
  IF \/ file_id \in DOMAIN handles
     \/ file_id \notin DOMAIN fs
     \/ \E n \in 1..Len(reads) :
          reads[n].location.file_id = file_id /\ reads[n].opened_at >= 0
    THEN handles
  ELSE [ f \in DOMAIN handles \cup { file_id } |->
           IF f \in DOMAIN handles THEN handles[f]
           ELSE [ file_id |-> file_id, opened_at |-> Len(returned) ] ]

\* _get_file_handle opening the file on every call
_get_file_handle_reopen(handles, fs, file_id) ==
  IF file_id \notin DOMAIN fs THEN handles
  ELSE [ f \in DOMAIN handles \cup { file_id } |->
           IF f # file_id THEN handles[f]
           ELSE [ file_id |-> file_id, opened_at |-> Len(returned) ] ]

\* KVReader._get_file_handle: the cache after the call, the handle being
\* opened on first use; the cache is left alone when the file is missing.
\* A handle remembers how many Locations had been handed out when it was opened
_get_file_handle(handles, fs, file_id) ==
  IF file_id \in DOMAIN handles \/ file_id \notin DOMAIN fs THEN handles
  ELSE [ f \in DOMAIN handles \cup { file_id } |->
           IF f \in DOMAIN handles THEN handles[f]
           ELSE [ file_id |-> file_id, opened_at |-> Len(returned) ] ]

\* the end of the last entry handed out in the handle's file before the
\* handle was opened
EndWhenOpened(handle) ==
  Max({ 0 } \cup { returned[i].location.entry_offset + returned[i].location.entry_size :
                     i \in { j \in 1..handle.opened_at :
                               returned[j].location.file_id = handle.file_id } })

\* a handle that would only see the entries handed out before it was opened
ContentWhenOpened(handle, fs) ==
  SubSeq(fs[handle.file_id], 1, EndWhenOpened(handle))

\* what seek() and read() on a cached handle see: the file as it is now
Content(handle, fs) == fs[handle.file_id]

\* one read_entry call as the caller saw it: the Location asked for, the
\* error raised ("none" when an entry was returned) and the entry, whether
\* the handle was already in the cache, when that handle was opened, and how
\* many Locations had been handed out when the call was made
Read(location, result, cached, opened_at) ==
  [ location |-> location, error |-> result.error, message |-> result.message,
    entry |-> result.entry, cached |-> cached, opened_at |-> opened_at,
    at |-> Len(returned) ]

\* KVReader.read_entry
ReadEntry(location) ==
  /\ Len(reads) < MaxReads
  /\ \E handles \in { _get_file_handle(file_handles, files, location.file_id) } :
       \E result \in { IF location.file_id \notin DOMAIN handles
                          THEN Raise("FileNotFoundError", "Data file not found")
                          ELSE read_entry(Content(handles[location.file_id], files),
                                          location) } :
         /\ file_handles' = handles
         /\ reads' = Append(reads,
                            Read(location, result,
                                 location.file_id \in DOMAIN file_handles,
                                 IF location.file_id \in DOMAIN handles
                                   THEN handles[location.file_id].opened_at
                                   ELSE -1))
  /\ UNCHANGED << files, writer_vars, returned, count >>

\* read_value returning the value bytes whatever read_entry found, an empty
\* value when it found no entry
read_value_lenient(result) ==
  [ error |-> "none", message |-> "", value |-> result.entry.value ]

\* KVReader.read_value, given the outcome of the read_entry call it makes
\* (ReadEntry, which is the whole of its effect on the Reader): the exception
\* of read_entry goes on to the caller, the value of the entry it returned is
\* returned
read_value(result) ==
  IF result.error # "none"
    THEN [ error |-> result.error, message |-> result.message,
           value |-> NoEntry.value ]
    ELSE [ error |-> "none", message |-> "", value |-> result.entry.value ]

\* close() forgetting only the handles that close without an error
close_some(handles, failing) ==
  [ f \in DOMAIN handles \cap failing |-> handles[f] ]

\* KVReader.close: the cache after the call. Every handle is closed, an
\* error of handle.close() (the handles whose close fails are in failing) is
\* swallowed, and the cache is cleared
close(handles, failing) == [ f \in {} |-> handles[f] ]

\* KVReader.close, on a cache with handles or without
ReaderClose ==
  /\ \E failing \in SUBSET DOMAIN file_handles :
       file_handles' = close(file_handles, failing)
  /\ UNCHANGED << files, writer_vars, returned, reads, count >>

\* the size test_size_mismatch_detection puts in a Location
WrongSize == 999

\* the read_entry calls so far whose Location was not one write_entry had
\* returned when the call was made
StrayReads ==
  { n \in 1..Len(reads) :
      reads[n].location \notin { returned[i].location : i \in 1..reads[n].at } }

\* Locations the caller can make up from the ones it holds: the right file
\* id and offset with a wrong size, and the start of the data file after the
\* last one, which does not exist (yet)
StrayLocations ==
  ( { [ location EXCEPT !.entry_size = WrongSize ] : location \in IndexedLocations }
    \cup { [ location EXCEPT !.file_id = Max(DOMAIN files) + 1, !.entry_offset = 0 ] :
             location \in IndexedLocations } )
  \ IndexedLocations

\* KVReader.read_entry with a Location that write_entry did not return
ReadEntryStray(location) ==
  /\ Cardinality(StrayReads) < MaxStray
  /\ ReadEntry(location)

Next ==
  \/ \E max_size \in MaxFileSizes : WriterInit(max_size)
  \/ \E entry \in Entries : WriteEntry(entry)
  \/ \E entry \in Entries : WriteEntryClosed(entry)
  \/ \E entry \in Entries : WriteEntryCrash(entry)
  \/ Close
  \/ Crash
  \/ \E location \in IndexedLocations : ReadEntry(location)
  \/ ReaderClose

Spec == Init /\ [][Next]_vars

\* the same with the operating system failing the Writer's I/O calls
Fault ==
  \/ \E entry \in Entries : WriteEntryFail(entry)
  \/ \E entry \in Entries : RotateOpenFail(entry)
  \/ \E entry \in Entries : WriteEntryValueError(entry)

NextFault == Next \/ Fault

SpecFault == Init /\ [][NextFault]_vars

\* the read_entry calls so far in which a seek or a read failed
FailedReads ==
  { n \in 1..Len(reads) : reads[n].message = "IO error reading entry" }

\* read_entry letting the OSError of a failed seek or read through
ReadEntryIOErrorRaw(location) ==
  /\ Len(reads) < MaxReads
  /\ Cardinality(FailedReads) < MaxReadFaults
  /\ location.file_id \in DOMAIN files
  /\ \E handles \in { _get_file_handle(file_handles, files, location.file_id) } :
       /\ file_handles' = handles
       /\ reads' = Append(reads,
                          Read(location, Raise("OSError", "IO error reading entry"),
                               location.file_id \in DOMAIN file_handles,
                               handles[location.file_id].opened_at))
  /\ UNCHANGED << files, writer_vars, returned, count >>

\* KVReader.read_entry when the operating system fails the seek or one of
\* the reads: the handle has been taken from the cache, or opened and put
\* there, before the try block; the OSError is caught and raised again as a
\* CorruptedEntryError
ReadEntryIOError(location) ==
  /\ Len(reads) < MaxReads
  /\ Cardinality(FailedReads) < MaxReadFaults
  /\ location.file_id \in DOMAIN files
  /\ \E handles \in { _get_file_handle(file_handles, files, location.file_id) } :
       /\ file_handles' = handles
       /\ reads' = Append(reads,
                          Read(location,
                               Raise("CorruptedEntryError", "IO error reading entry"),
                               location.file_id \in DOMAIN file_handles,
                               handles[location.file_id].opened_at))
  /\ UNCHANGED << files, writer_vars, returned, count >>

\* the fault-free program with the operating system failing the Reader's
\* seek and read calls
ReadFault == \E location \in IndexedLocations : ReadEntryIOError(location)

NextReadFault == Next \/ ReadFault

SpecReadFault == Init /\ [][NextReadFault]_vars

\* the fault-free program with callers that also write entries built with
\* the constructor
Direct == \E entry \in DirectEntries : WriteEntry(entry)

NextDirect == Next \/ Direct

SpecDirect == Init /\ [][NextDirect]_vars

\* the same (without I/O failures) with a data file damaged from outside, or
\* a read_entry call with a Location that was never handed out
Corrupt ==
  \/ \E location \in IndexedLocations : \E damage \in Damages :
       Overwrite(location, damage)
  \/ \E location \in IndexedLocations : \E n \in Truncations :
       Truncate(location, n)
  \/ \E location \in StrayLocations : ReadEntryStray(location)

NextCorrupt == Next \/ Corrupt

SpecCorrupt == Init /\ [][NextCorrupt]_vars

(***************************************************************************)
(* Properties                                                              *)
(***************************************************************************)

\* the bytes now found in the byte range [offset, offset + size) of a Location
Stored(location) ==
  IF location.file_id \in DOMAIN files
    THEN Slice(files[location.file_id], location.entry_offset + 1,
               location.entry_offset + location.entry_size)
    ELSE << >>

\* the Writer instance that is open, 0 when none is
OpenWriter ==
  IF writer = "live" /\ active_file_handle # None THEN count.writers ELSE 0

\* the read_entry calls made on the Location handed out by the i-th
\* successful write_entry, after it was handed out
ReadsOf(i) ==
  { n \in 1..Len(reads) :
      reads[n].location = returned[i].location /\ i <= reads[n].at }

C2_Visible ==
  \A i \in 1..Len(returned) :
    Stored(returned[i].location) = _serialize_entry(returned[i].entry)

\* C3: a Reader next to an open Writer. While the Writer that wrote them is
\* still open, every read_entry of one of its Locations succeeds with the
\* entry that was written: a read of A made before B was written, and reads
\* of A and of B made after B was written through the handle the Reader had
\* cached before.
C3_ReaderBesideWriter ==
  \A i \in 1..Len(returned) :
    returned[i].writer = OpenWriter =>
      \A n \in ReadsOf(i) :
        /\ reads[n].error = "none"
        /\ reads[n].entry = returned[i].entry

\* the Writer wrote A, the Reader read A before B was written, the same
\* Writer wrote B into the same file, the Reader read B through the handle
\* it had opened for A, and the Writer is still open
C3_Witness ==
  /\ Len(reads) = 2
  /\ \E a, b \in 1..Len(returned) :
       /\ a < b
       /\ returned[a].writer = OpenWriter
       /\ returned[b].writer = OpenWriter
       /\ returned[a].location.file_id = returned[b].location.file_id
       /\ reads[1].location = returned[a].location
       /\ reads[1].at < b
       /\ reads[1].error = "none"
       /\ reads[2].location = returned[b].location
       /\ reads[2].cached
       /\ reads[2].opened_at < b
       /\ reads[2].error = "none"
       /\ reads[2].entry = returned[b].entry

IsPrefix(s, t) == Len(s) <= Len(t) /\ SubSeq(t, 1, Len(s)) = s

\* C4: durable bytes are never lost or overwritten. Over every step of a
\* Writer (construction, write_entry with or without rotation, failed or
\* interrupted write, close, crash, construction of the next Writer) every
\* data file stays in the directory and its content before the step is a
\* prefix of its content after it, so the bytes of every Location handed
\* out stay what they were.
C4_Durable ==
  [][ /\ \A f \in DOMAIN files :
           f \in DOMAIN files' /\ IsPrefix(files[f], files'[f])
      /\ \A i \in 1..Len(returned) :
           Stored(returned[i].location)' = Stored(returned[i].location) ]_vars

\* a second Writer, constructed after the first one was closed or died, has
\* appended an entry right behind the entry the first one had written
C4_Witness ==
  /\ Len(returned) = 2
  /\ returned[1].writer = 1
  /\ returned[2].writer = 2
  /\ returned[2].location.file_id = returned[1].location.file_id
  /\ returned[2].location.entry_offset =
       returned[1].location.entry_offset + returned[1].location.entry_size
  /\ Stored(returned[1].location) = _serialize_entry(returned[1].entry)

\* C5: restart continuation. A Writer constructed over an empty directory
\* starts at file id 0, offset 0; over a directory whose highest-numbered
\* file h has size s it starts at (h, s) when s < max_file_size and at
\* (h + 1, 0) when s >= max_file_size; and the first write_entry after the
\* construction, unless it rotates, returns a Location at that file id and
\* offset.
C5_RestartContinuation ==
  [][ /\ count'.writers = count.writers + 1 =>
           IF DOMAIN files = {}
             THEN active_file_id' = 0 /\ current_offset' = 0
             ELSE LET h == Max(DOMAIN files)
                      sz == Len(files[h])
                  IN IF sz < max_file_size'
                       THEN active_file_id' = h /\ current_offset' = sz
                       ELSE active_file_id' = h + 1 /\ current_offset' = 0
      /\ (w_ret.op = "init" /\ Len(returned') = Len(returned) + 1) =>
           LET location == returned'[Len(returned')].location
           IN current_offset + location.entry_size <= max_file_size =>
                /\ location.file_id = active_file_id
                /\ location.entry_offset = current_offset ]_vars

\* a second Writer resumed a file that was not full behind its last byte,
\* and its first write landed there
C5_Witness ==
  /\ Len(returned) = 2
  /\ returned[1].writer = 1
  /\ returned[2].writer = 2
  /\ returned[2].before.current_offset > 0
  /\ returned[2].before.current_offset < returned[2].before.max_file_size
  /\ returned[2].location.file_id = returned[1].location.file_id
  /\ returned[2].location.entry_offset = returned[2].before.current_offset

\* the length of an entry's serialized form: header, key bytes, value bytes
SerializedSize(entry) ==
  HEADER_SIZE + Len(encode_utf8(entry.key)) + Len(entry.value)

RECURSIVE SumSizes(_)
\* the sum of the serialized sizes of the entries handed out at the indices S
SumSizes(S) ==
  IF S = {} THEN 0
  ELSE LET i == CHOOSE x \in S : TRUE
       IN SerializedSize(returned[i].entry) + SumSizes(S \ { i })

\* the Locations the open Writer has handed out in its active file
InActiveFile ==
  { i \in 1..Len(returned) :
      /\ returned[i].writer = OpenWriter
      /\ returned[i].location.file_id = active_file_id }

\* C6: contiguous offsets. Of two successive successful write_entry calls
\* that land in the same file (calls of one Writer, or calls that directly
\* follow each other), the second Location's offset is the first one's
\* offset plus the first entry's serialized size, hence strictly greater; and
\* after N writes of a Writer to a file that started at offset 0 its
\* current_offset is the sum of the N serialized sizes.
C6_Contiguous ==
  /\ \A i \in 1..(Len(returned) - 1) :
       ( /\ returned[i].location.file_id = returned[i + 1].location.file_id
         /\ \/ returned[i].writer = returned[i + 1].writer
            \/ returned[i + 1].call = returned[i].call + 1 )
       => /\ returned[i + 1].location.entry_offset =
               returned[i].location.entry_offset + SerializedSize(returned[i].entry)
          /\ returned[i + 1].location.entry_offset > returned[i].location.entry_offset
  /\ ( /\ InActiveFile # {}
       /\ \E i \in InActiveFile : returned[i].location.entry_offset = 0 )
     => current_offset = SumSizes(InActiveFile)

\* one Writer has written two entries into one file that started at offset 0,
\* the first of them with a key
C6_Witness ==
  /\ InActiveFile = { 1, 2 }
  /\ returned[1].location.entry_offset = 0
  /\ returned[1].entry.key # << >>
  /\ returned[2].location.entry_offset = SerializedSize(returned[1].entry)
  /\ current_offset = SumSizes({ 1, 2 })

\* C7: rotation rule. write_entry rotates before writing exactly when
\* current_offset + size > max_file_size: then the Location has the file id
\* one higher than the Writer's active_file_id before the call and offset 0;
\* otherwise (also when the entry fills the file exactly to max_file_size)
\* it has the active_file_id and current_offset of before the call.
C7_RotationRule ==
  \A i \in 1..Len(returned) :
    LET location == returned[i].location
        before   == returned[i].before
    IN IF before.current_offset + SerializedSize(returned[i].entry)
            > before.max_file_size
         THEN /\ location.file_id = before.active_file_id + 1
              /\ location.entry_offset = 0
         ELSE /\ location.file_id = before.active_file_id
              /\ location.entry_offset = before.current_offset

\* an entry that fills file 0 exactly to max_file_size was written at offset
\* 0 of file 0 without rotating, and the next entry went to offset 0 of file 1
C7_Witness ==
  /\ Len(returned) = 2
  /\ returned[1].writer = returned[2].writer
  /\ returned[1].before.current_offset = 0
  /\ SerializedSize(returned[1].entry) = returned[1].before.max_file_size
  /\ returned[1].location.file_id = 0
  /\ returned[1].location.entry_offset = 0
  /\ returned[2].location.file_id = 1
  /\ returned[2].location.entry_offset = 0

\* C8: Location fields. The Location a successful write_entry returns has
\* the file id that is active after the call (after its rotation, if any),
\* the offset current_offset had just before the bytes were appended (its
\* value before the call, or 0 after a rotation), size 20 + the number of
\* UTF-8 bytes of the key + the number of bytes of the value, and the entry's
\* timestamp; key "hello", value "world", timestamp 1672531200 written first
\* into an empty store whose files take 30 bytes gives (0, 0, 30, 1672531200).
C8_LocationFields ==
  [][ Len(returned') = Len(returned) + 1 =>
        LET entry    == returned'[Len(returned')].entry
            location == returned'[Len(returned')].location
        IN /\ w_ret'.error = "none"
           /\ w_ret'.location = location
           /\ location.file_id = active_file_id'
           /\ location.entry_offset =
                IF active_file_id' = active_file_id THEN current_offset ELSE 0
           /\ location.entry_size =
                20 + Len(encode_utf8(entry.key)) + Len(entry.value)
           /\ location.timestamp = entry.timestamp
           /\ ( /\ entry.key = << 104, 101, 108, 108, 111 >>
                /\ entry.value = << 119, 111, 114, 108, 100 >>
                /\ entry.timestamp = 1672531200
                /\ files = (0 :> << >>)
                /\ max_file_size >= 30 )
              => location = KVLocation(0, 0, 30, 1672531200) ]_vars

\* "hello"/"world" was written first into an empty store and got
\* (0, 0, 30, 1672531200); an entry with the two-byte key "é" and no value
\* followed and got size 22
C8_Witness ==
  /\ Len(returned) = 2
  /\ returned[1].location = KVLocation(0, 0, 30, 1672531200)
  /\ returned[2].entry.key = << 233 >>
  /\ returned[2].location.entry_size = 22
  /\ w_ret.location = returned[2].location

\* the bytes data stand in one piece somewhere in content
Occurs(data, content) ==
  \E o \in 0..(Len(content) - Len(data)) :
    SubSeq(content, o + 1, o + Len(data)) = data

\* C9: no entry is split across files. Every entry for which write_entry
\* returned a Location stands whole in one file, and an entry whose own size
\* exceeds max_file_size stands whole at its Location's offset in its
\* Location's file and every read_entry of that Location returns it.
C9_NoSplit ==
  \A i \in 1..Len(returned) :
    /\ \E f \in DOMAIN files :
         Occurs(_serialize_entry(returned[i].entry), files[f])
    /\ SerializedSize(returned[i].entry) > returned[i].before.max_file_size =>
         /\ Stored(returned[i].location) = _serialize_entry(returned[i].entry)
         /\ \A n \in ReadsOf(i) :
              /\ reads[n].error = "none"
              /\ reads[n].entry = returned[i].entry

\* an entry larger than max_file_size was written after an earlier write had
\* filled the active file, stands whole in a file of its own, and was read
C9_Witness ==
  \E i \in 1..Len(returned) :
    /\ SerializedSize(returned[i].entry) > returned[i].before.max_file_size
    /\ returned[i].before.current_offset > 0
    /\ files[returned[i].location.file_id] = _serialize_entry(returned[i].entry)
    /\ \E n \in ReadsOf(i) : reads[n].entry = returned[i].entry

\* the bytes of the i-th Location handed out are the entry that was written
Intact(i) ==
  Stored(returned[i].location) = _serialize_entry(returned[i].entry)

\* C10: corruption isolation. A read_entry that fails with a corruption
\* error leaves the handle cache as it was apart from the handle opened for
\* the file it read; and once a read has failed with a corruption error,
\* every read_entry of a Location whose bytes are undamaged, in the same
\* file or another, returns the entry that was written.
C10_CorruptionIsolation ==
  [][ Len(reads') = Len(reads) + 1 =>
        LET r == reads'[Len(reads')]
        IN /\ r.error = "CorruptedEntryError" =>
                /\ DOMAIN file_handles' =
                     DOMAIN file_handles \cup { r.location.file_id }
                /\ \A f \in DOMAIN file_handles :
                     file_handles'[f] = file_handles[f]
           /\ (\E m \in 1..Len(reads) : reads[m].error = "CorruptedEntryError") =>
                \A i \in 1..Len(returned) :
                  (returned[i].location = r.location /\ Intact(i)) =>
                    /\ r.error = "none"
                    /\ r.entry = returned[i].entry ]_vars

\* the stored checksum of one entry was overwritten, read_entry on its
\* Location failed with "CRC check failed", and the same Reader then read
\* another entry of the same file through the handle it had opened
C10_Witness ==
  /\ Len(reads) = 2
  /\ reads[1].error = "CorruptedEntryError"
  /\ reads[1].message = "CRC check failed"
  /\ reads[2].location.file_id = reads[1].location.file_id
  /\ reads[2].location # reads[1].location
  /\ reads[2].cached
  /\ reads[2].error = "none"
  /\ \E i \in 1..Len(returned) :
       /\ returned[i].location = reads[2].location
       /\ returned[i].entry = reads[2].entry

\* the length of the data file a Location names
FileEnd(location) == Len(files[location.file_id])

\* the file of a Location holds the 20 bytes of a header at its offset
WholeHeader(location) ==
  /\ location.file_id \in DOMAIN files
  /\ FileEnd(location) >= location.entry_offset + HEADER_SIZE

\* the header fields as they now stand in the file at a Location's offset
StoredHeader(location) ==
  SubSeq(files[location.file_id], location.entry_offset + 1,
         location.entry_offset + HEADER_SIZE)

StoredCrc(location) == SubSeq(StoredHeader(location), 1, 4)

StoredKeySize(location) == UnpackBE(SubSeq(StoredHeader(location), 13, 16), Huge)

StoredValueSize(location) == UnpackBE(SubSeq(StoredHeader(location), 17, 20), Huge)

\* the Location's size is the one its header announces
SizesAgree(location) ==
  HEADER_SIZE + StoredKeySize(location) + StoredValueSize(location)
    = location.entry_size

\* the range of a Location holds a whole header whose two size fields add up
\* to the Location's size, and all the key and value bytes they announce
WholeEntry(location) ==
  /\ WholeHeader(location)
  /\ SizesAgree(location)
  /\ Len(Stored(location)) = location.entry_size

\* the key bytes of a whole entry
StoredKey(location) ==
  SubSeq(Stored(location), HEADER_SIZE + 1, HEADER_SIZE + StoredKeySize(location))

\* the read_entry call a step makes, if it makes one
ReadStep == Len(reads') = Len(reads) + 1

LastRead == reads'[Len(reads')]

\* C11: checksum mismatch detection. When the bytes at a Location pass every
\* earlier validation stage (whole header, sizes adding up to the Location's
\* size, key and value complete, key valid UTF-8), read_entry fails with
\* CorruptedEntryError "CRC check failed" and returns no entry if the stored
\* 4-byte checksum differs from the CRC-32 of the 16 header bytes after it
\* followed by the key and value bytes, and returns the entry if it is equal.
C11_ChecksumMismatch ==
  [][ (ReadStep /\ WholeEntry(LastRead.location)
                /\ decode_utf8(StoredKey(LastRead.location)) # InvalidUtf8) =>
        IF StoredCrc(LastRead.location)
             # crc32(SubSeq(Stored(LastRead.location), 5, LastRead.location.entry_size))
          THEN /\ LastRead.error = "CorruptedEntryError"
               /\ LastRead.message = "CRC check failed"
               /\ LastRead.entry = NoEntry
          ELSE /\ LastRead.error = "none"
               /\ LastRead.entry # NoEntry
               /\ LastRead.entry.crc = StoredCrc(LastRead.location) ]_vars

\* the stored checksum of an entry with a non-empty key and value was
\* overwritten and the read of its Location failed with "CRC check failed",
\* while an undamaged entry was read and returned
C11_Witness ==
  /\ \E n \in 1..Len(reads) :
       /\ reads[n].message = "CRC check failed"
       /\ WholeEntry(reads[n].location)
       /\ StoredCrc(reads[n].location) = << 255, 255, 255, 255 >>
       /\ StoredKeySize(reads[n].location) > 0
  /\ \E n \in 1..Len(reads) :
       /\ reads[n].error = "none"
       /\ reads[n].entry.crc # << 255, 255, 255, 255 >>

\* C12: truncation detection. For a Location at offset o whose header
\* announces the sizes k and v of the Location's entry: read_entry fails with
\* "Incomplete header" when the file ends before o + 20, with "Incomplete key
\* data" when it ends at or after o + 20 but before o + 20 + k, and with
\* "Incomplete value data" when it ends at or after o + 20 + k but before
\* o + 20 + k + v; in each case a CorruptedEntryError and no entry.
C12_TruncationDetection ==
  [][ (ReadStep /\ LastRead.location.file_id \in DOMAIN files) =>
        LET location == LastRead.location
            o        == location.entry_offset
            end      == FileEnd(location)
        IN /\ end < o + HEADER_SIZE =>
                /\ LastRead.error = "CorruptedEntryError"
                /\ LastRead.message = "Incomplete header"
                /\ LastRead.entry = NoEntry
           /\ (WholeHeader(location) /\ SizesAgree(location)) =>
                /\ end < o + HEADER_SIZE + StoredKeySize(location) =>
                     /\ LastRead.error = "CorruptedEntryError"
                     /\ LastRead.message = "Incomplete key data"
                     /\ LastRead.entry = NoEntry
                /\ ( /\ end >= o + HEADER_SIZE + StoredKeySize(location)
                     /\ end < o + location.entry_size ) =>
                     /\ LastRead.error = "CorruptedEntryError"
                     /\ LastRead.message = "Incomplete value data"
                     /\ LastRead.entry = NoEntry ]_vars

\* the two reads made were of files cut inside an entry, and failed with two
\* of the three truncation errors
C12_Witness ==
  /\ Len(reads) = 2
  /\ \A n \in 1..2 :
       /\ reads[n].location \in IndexedLocations
       /\ FileEnd(reads[n].location)
            < reads[n].location.entry_offset + reads[n].location.entry_size
  /\ { reads[1].message, reads[2].message }
       \in { { "Incomplete header", "Incomplete key data" },
             { "Incomplete header", "Incomplete value data" },
             { "Incomplete key data", "Incomplete value data" } }

\* the first validation stage that the bytes now in the file fail for a
\* Location, in the order header, sizes, key, value, UTF-8, checksum; "" when
\* they pass them all
FirstFailure(location) ==
  IF ~WholeHeader(location) THEN "Incomplete header"
  ELSE IF ~SizesAgree(location) THEN "Size mismatch"
  ELSE IF FileEnd(location)
            < location.entry_offset + HEADER_SIZE + StoredKeySize(location)
    THEN "Incomplete key data"
  ELSE IF FileEnd(location) < location.entry_offset + location.entry_size
    THEN "Incomplete value data"
  ELSE IF decode_utf8(StoredKey(location)) = InvalidUtf8
    THEN "Invalid UTF-8 key data"
  ELSE IF StoredCrc(location)
            # crc32(SubSeq(Stored(location), 5, location.entry_size))
    THEN "CRC check failed"
  ELSE ""

\* C13: validation order. read_entry applies its checks in the order
\* incomplete header, size mismatch, incomplete key data, incomplete value
\* data, invalid UTF-8 key, checksum mismatch, and reports the first stage
\* that fails: a truncated header wins over a wrong Location size, and a
\* key_size field overwritten with 0xFFFFFFFF is a size mismatch, neither
\* incomplete key data nor invalid sizes.
C13_ValidationOrder ==
  [][ (ReadStep /\ LastRead.location.file_id \in DOMAIN files) =>
        /\ LastRead.message = FirstFailure(LastRead.location)
        /\ LastRead.error = "CorruptedEntryError" <=> LastRead.message # ""
        /\ LastRead.error = "none" <=> LastRead.message = "" ]_vars

\* the key_size field of an entry was overwritten with 0xFFFFFFFF, so that
\* the sizes no longer add up and the file is also too short for the key the
\* header announces, and the read of its Location reported a size mismatch
C13_Witness ==
  \E n \in 1..Len(reads) :
    /\ reads[n].location \in IndexedLocations
    /\ WholeHeader(reads[n].location)
    /\ SubSeq(StoredHeader(reads[n].location), 13, 16) = << 255, 255, 255, 255 >>
    /\ FileEnd(reads[n].location)
         < reads[n].location.entry_offset + HEADER_SIZE
             + StoredKeySize(reads[n].location)
    /\ reads[n].error = "CorruptedEntryError"
    /\ reads[n].message = "Size mismatch"

\* C14: size cross-check. read_entry(L) returns an entry only if L.entry_size
\* is 20 + key_size + value_size as the header stored at L.entry_offset has
\* them; with any other size in L the call fails with CorruptedEntryError
\* "Size mismatch" and returns no entry, whether or not the key and value
\* bytes that the header announces are there to be read.
C14_SizeCrossCheck ==
  [][ (ReadStep /\ LastRead.location.file_id \in DOMAIN files) =>
        /\ LastRead.error = "none" =>
             /\ WholeHeader(LastRead.location)
             /\ LastRead.location.entry_size
                  = HEADER_SIZE + LastRead.entry.key_size + LastRead.entry.value_size
             /\ LastRead.entry.key_size = StoredKeySize(LastRead.location)
             /\ LastRead.entry.value_size = StoredValueSize(LastRead.location)
        /\ ( /\ WholeHeader(LastRead.location)
             /\ LastRead.location.entry_size
                  # HEADER_SIZE + StoredKeySize(LastRead.location)
                      + StoredValueSize(LastRead.location) ) =>
             /\ LastRead.error = "CorruptedEntryError"
             /\ LastRead.message = "Size mismatch"
             /\ LastRead.entry = NoEntry ]_vars

\* a Location with the file id and offset of an entry and another size was
\* read after the file had been cut behind the
\* header of that entry, and the call failed with "Size mismatch"
C14_Witness ==
  \E n \in 1..Len(reads) :
    /\ reads[n].location.entry_size = WrongSize
    /\ \E i \in 1..Len(returned) :
         /\ returned[i].location.file_id = reads[n].location.file_id
         /\ returned[i].location.entry_offset = reads[n].location.entry_offset
         /\ returned[i].location.entry_size # WrongSize
         /\ FileEnd(reads[n].location)
              < reads[n].location.entry_offset + returned[i].location.entry_size
    /\ WholeHeader(reads[n].location)
    /\ reads[n].error = "CorruptedEntryError"
    /\ reads[n].message = "Size mismatch"

\* C15: not found. read_entry on a Location whose file id has no data file
\* fails with FileNotFoundError "Data file not found", returns no entry and
\* leaves the handle cache exactly as it was; and once the file exists, a
\* read_entry by the same Reader of a Location write_entry returned in that
\* file, its bytes undamaged, returns the entry that was written.
C15_NotFound ==
  [][ ReadStep =>
        /\ LastRead.location.file_id \notin DOMAIN files =>
             /\ LastRead.error = "FileNotFoundError"
             /\ LastRead.message = "Data file not found"
             /\ LastRead.entry = NoEntry
             /\ file_handles' = file_handles
        /\ (\E m \in 1..Len(reads) :
              /\ reads[m].error = "FileNotFoundError"
              /\ reads[m].location.file_id = LastRead.location.file_id) =>
             \A i \in 1..Len(returned) :
               (returned[i].location = LastRead.location /\ Intact(i)) =>
                 /\ LastRead.error = "none"
                 /\ LastRead.entry = returned[i].entry ]_vars

\* a Reader was refused a Location in a data file that did not exist, the
\* Writer, still open, then rotated into that file and returned that very
\* Location, and the same Reader read it
C15_Witness ==
  /\ Len(reads) = 2
  /\ reads[1].error = "FileNotFoundError"
  /\ reads[2].location = reads[1].location
  /\ reads[2].error = "none"
  /\ reads[2].location.file_id > 0
  /\ reads[2].location.file_id \in DOMAIN file_handles
  /\ \E i \in 1..Len(returned) :
       /\ returned[i].location = reads[2].location
       /\ returned[i].before.active_file_id < reads[2].location.file_id
       /\ returned[i].writer = OpenWriter

\* C16: handle caching. Between two close() calls a Reader opens each file id
\* at most once and reuses the handle: a read_entry on an existing file adds
\* the handle of that file to the cache if it is not there and changes no
\* handle that is, a read_entry on a missing file and every step that is not
\* a Reader call leave the cache alone, and close() empties it; so the cache
\* holds one handle for each file id of an existing file on which read_entry
\* was attempted since the last close(), whether the read succeeded or failed
\* with a corruption error, and no other.
C16_HandleCaching ==
  [][ /\ ReadStep =>
           /\ DOMAIN file_handles' =
                DOMAIN file_handles
                  \cup ({ LastRead.location.file_id } \cap DOMAIN files)
           /\ \A f \in DOMAIN file_handles : file_handles'[f] = file_handles[f]
           /\ LastRead.cached <=> LastRead.location.file_id \in DOMAIN file_handles
      /\ ~ReadStep => (file_handles' = file_handles \/ file_handles' = << >>)
      /\ \A f \in DOMAIN file_handles' :
           /\ f \in DOMAIN files
           /\ file_handles'[f].file_id = f
           /\ \E n \in 1..Len(reads') :
                /\ reads'[n].location.file_id = f
                /\ reads'[n].error \in { "none", "CorruptedEntryError" } ]_vars

\* a read that failed with a corruption error opened a file, entries were
\* appended to it, and a later read of the same file succeeded on the handle
\* the failed read had opened, the only one in the cache
C16_Witness ==
  /\ Len(reads) = 2
  /\ reads[1].error = "CorruptedEntryError"
  /\ ~reads[1].cached
  /\ reads[2].error = "none"
  /\ reads[2].location.file_id = reads[1].location.file_id
  /\ reads[2].cached
  /\ reads[2].opened_at < reads[2].at
  /\ Cardinality(DOMAIN file_handles) = 1

\* C17: Reader.close() is idempotent. Whatever handles the cache holds and
\* whichever of them fail to close, close() leaves the cache empty; and
\* close() called again on the result, any number of times, leaves it empty.
C17_CloseIdempotent ==
  \A failing \in SUBSET DOMAIN file_handles :
    /\ close(file_handles, failing) = << >>
    /\ close(close(file_handles, failing), {}) = close(file_handles, failing)
    /\ close(close(close(file_handles, failing), {}), {}) = << >>

\* a Reader that had read entries of two files, so that its cache held two
\* handles, has an empty cache: close() was called
C17_Witness ==
  /\ Len(reads) = 2
  /\ reads[1].error = "none"
  /\ reads[2].error = "none"
  /\ reads[1].location.file_id # reads[2].location.file_id
  /\ file_handles = << >>

\* the Writer instance has been closed: it exists and its handle is None
Closed == writer = "live" /\ active_file_handle = None

\* the step is made with the Writer instance of the state it starts in still
\* there: no process death and no new instance
SameWriter == writer' = "live" /\ count'.writers = count.writers

\* C18: Closed is terminal for a Writer. Once close() has been called on an
\* instance, every step of that instance leaves it closed: a write_entry
\* fails with the WriterError "No active file handle available", which
\* carries no operation and no path, and returns no Location; no bytes are
\* appended to any file and no file is created; active_file_id and
\* current_offset keep their values; and another close() changes nothing.
C18_ClosedIsTerminal ==
  [][ (Closed /\ SameWriter) =>
        /\ active_file_handle' = None
        /\ files' = files
        /\ active_file_id' = active_file_id
        /\ current_offset' = current_offset
        /\ max_file_size' = max_file_size
        /\ returned' = returned
        /\ w_ret'.op = "write_entry" =>
             /\ w_ret'.error = "WriterError"
             /\ WriterErrorMessage(w_ret'.operation)
                  = "No active file handle available"
             /\ w_ret'.path = -1
             /\ w_ret'.location = NoLocation
        /\ w_ret'.op = "close" => w_ret'.error = "none"
        /\ w_ret'.op \in { "write_entry", "close" } ]_vars

\* a Writer that had written an entry was closed, and a write_entry on it
\* was then refused, the file and the Writer's position left as they were
C18_Witness ==
  /\ Closed
  /\ w_ret.op = "write_entry"
  /\ w_ret.error = "WriterError"
  /\ w_ret.operation = ""
  /\ \E i \in 1..Len(returned) :
       /\ returned[i].writer = count.writers
       /\ returned[i].location.file_id = active_file_id
       /\ returned[i].location.entry_offset + returned[i].location.entry_size
            = current_offset
       /\ Len(files[active_file_id]) = current_offset

\* C19: failure policy. Every failure to open, write, flush or rotate a file
\* during Writer construction or write_entry reaches the caller as a
\* WriterError that carries the attempted operation ("write_entry" for a
\* failed write or flush, "open_active_file" for a failed open, also of the
\* new file of a rotation) and the path of the file; the call that is
\* refused because the Writer has no handle at all is not such a failure.
C19_FailurePolicy ==
  ( /\ w_ret.op \in { "init", "write_entry" }
    /\ w_ret.error # "none"
    /\ active_file_handle # None ) =>
      /\ w_ret.error = "WriterError"
      /\ w_ret.operation \in { "write_entry", "open_active_file", "file_rotation" }
      /\ w_ret.path = active_file_id
      /\ w_ret.location = NoLocation

\* C20: superseded files are immutable. No step of a Writer, with or without
\* an I/O failure, a crash or a restart, removes a data file or changes a
\* data file k while a data file with a higher id exists; the only files
\* whose content a step changes are the highest-numbered one and the ones
\* the step creates above it, and a file only ever grows at its end.
C20_SupersededImmutable ==
  [][ /\ DOMAIN files \subseteq DOMAIN files'
      /\ \A k \in DOMAIN files :
           /\ (\E j \in DOMAIN files : j > k) => files'[k] = files[k]
           /\ IsPrefix(files[k], files'[k])
      /\ \A k \in DOMAIN files' \ DOMAIN files : k > Max(DOMAIN files \cup { -1 })
    ]_vars

\* a Writer filled file 0 and rotated, a later Writer found file 1 full and
\* started file 2: files 0 and 1 hold what was written to them before they
\* were superseded
C20_Witness ==
  /\ DOMAIN files = { 0, 1, 2 }
  /\ Len(returned) = 2
  /\ returned[1].location.file_id = 0
  /\ returned[2].location.file_id = 1
  /\ files[0] = _serialize_entry(returned[1].entry)
  /\ files[1] = _serialize_entry(returned[2].entry)
  /\ active_file_id = 2
  /\ OpenWriter = 2

\* the step constructs a Writer
InitStep == count'.writers = count.writers + 1

\* C21: recovery takes the maximum id and tolerates gaps. When a Writer is
\* constructed on a directory whose data files have the ids S, with or
\* without gaps, beside names that are not data_<integer>.dat, the active id
\* is max(S) or max(S) + 1 (0 when S is empty), the only file the
\* construction can create is the active one, no existing file is changed,
\* and no file with an id below max(S) is opened, created or written: every
\* gap stays a gap.
C21_RecoveryMaxId ==
  [][ InitStep =>
        /\ DOMAIN files # {} =>
             /\ active_file_id' \in { Max(DOMAIN files), Max(DOMAIN files) + 1 }
             /\ active_file_id' = Max(DOMAIN files) + 1 =>
                  Len(files[Max(DOMAIN files)]) >= max_file_size'
        /\ DOMAIN files = {} => active_file_id' = 0
        /\ DOMAIN files' = DOMAIN files \cup { active_file_id' }
        /\ \A k \in DOMAIN files : files'[k] = files[k]
        /\ active_file_handle'.file_id = active_file_id'
        /\ ~active_file_handle'.closed ]_vars

\* the directory holds data files with a gap in their ids, and the second
\* Writer was constructed on it and is active in the highest one or above it
C21_Witness ==
  /\ OpenWriter = 2
  /\ w_ret.op = "init"
  /\ \E k \in 0..Max(DOMAIN files) :
       /\ k \notin DOMAIN files
       /\ k < active_file_id
       /\ \E j \in DOMAIN files : j < k
  /\ active_file_id = Max(DOMAIN files)

\* what read_value hands to its caller in a step that reads
LastValue ==
  read_value([ error |-> LastRead.error, message |-> LastRead.message,
               entry |-> LastRead.entry ])

WriterCloseStep == SameWriter /\ writer = "live" /\ w_ret'.op = "close"

\* the step is a close() of the Reader that found handles in the cache
ReaderCloseStep == file_handles' # file_handles /\ ~ReadStep

\* C23: handles are never left dangling. The only handle a Writer holds is
\* active_file_handle and the only handles a Reader holds are the ones in
\* its cache; after close(), and so after leaving a with-block, the Writer's
\* active_file_handle is None, with no error raised and no byte of a failed
\* write kept back in a buffer, and the Reader's cache is empty. This holds
\* also after a failed write, a failed rotation or a read that failed.
C23_NoDanglingHandles ==
  [][ /\ WriterCloseStep =>
           /\ active_file_handle' = None
           /\ w_ret'.error = "none"
           /\ \A k \in DOMAIN files : IsPrefix(files[k], files'[k])
           /\ (active_file_handle # None /\ ~active_file_handle.closed) =>
                files'[active_file_handle.file_id]
                  = files[active_file_handle.file_id] \o active_file_handle.buf
      /\ ReaderCloseStep => file_handles' = << >>
      /\ (w_ret'.op = "close" /\ writer' = "live") => active_file_handle' = None
    ]_vars

\* a Writer was closed after a write_entry of it had failed, and the Reader
\* was closed after a read of it had failed with a corruption error
C23_Witness ==
  /\ writer = "live"
  /\ w_ret.op = "close"
  /\ active_file_handle = None
  /\ count.faults > 0
  /\ file_handles = << >>
  /\ \E n \in 1..Len(reads) :
       /\ reads[n].error = "CorruptedEntryError"
       /\ reads[n].location.file_id \in DOMAIN files

\* the validation stages whose failure read_entry reports
Stages ==
  { "Incomplete header", "Size mismatch", "Incomplete key data",
    "Incomplete value data", "Invalid UTF-8 key data", "CRC check failed" }

\* C24: structured corruption errors. Every CorruptedEntryError raised by
\* read_entry names the validation stage that failed, one of incomplete
\* header, size mismatch, incomplete key data, incomplete value data, invalid
\* key encoding and checksum mismatch, carries the offending location, and
\* comes with no entry, truncated or default-filled, in its place.
C24_StructuredErrors ==
  \A n \in 1..Len(reads) :
    reads[n].error = "CorruptedEntryError" =>
      /\ reads[n].message \in Stages
      /\ reads[n].entry = NoEntry
      /\ CorruptedEntryError(reads[n].message).location # "None"

\* the directory after a Writer was constructed on fs with max_size and
\* closed without a write
Restarted(fs, max_size) ==
  OpenAppend(fs, _initialize_active_file(fs, max_size).active_file_id)

\* C25: restart is idempotent. On every directory state and with every
\* max_file_size, constructing a Writer, closing it without writing and
\* constructing a second Writer gives the second the active_file_id and
\* current_offset of the first, leaves the bytes of all existing files
\* unchanged, and creates no data file beyond the one the first construction
\* created.
C25_RestartIdempotent ==
  \A max_size \in MaxFileSizes :
    /\ _initialize_active_file(Restarted(files, max_size), max_size)
         = _initialize_active_file(files, max_size)
    /\ Restarted(Restarted(files, max_size), max_size) = Restarted(files, max_size)
    /\ \A k \in DOMAIN files : Restarted(files, max_size)[k] = files[k]
    /\ DOMAIN Restarted(files, max_size)
         = DOMAIN files \cup { _initialize_active_file(files, max_size).active_file_id }

\* a Writer was constructed on a directory whose last file was full and
\* created a new file, in which nothing was written: a Writer constructed
\* now starts in that same, still empty file
C25_Witness ==
  /\ OpenWriter = 2
  /\ w_ret.op = "init"
  /\ active_file_id > 0
  /\ current_offset = 0
  /\ files[active_file_id] = << >>
  /\ Len(files[active_file_id - 1]) >= max_file_size
  /\ _initialize_active_file(files, max_file_size)
       = [ active_file_id |-> active_file_id, current_offset |-> 0 ]

\* Location a comes before Location b in the order of (file_id, offset)
Before(a, b) ==
  \/ a.file_id < b.file_id
  \/ a.file_id = b.file_id /\ a.entry_offset < b.entry_offset

\* C26: file ids only move forward. Within one Writer instance
\* active_file_id never decreases; a step that changes it is a rotation,
\* which increases it by exactly 1 and resets current_offset to 0, so that
\* what the call then writes stands at offset 0 of the new file; and the
\* Locations that the successive successful writes of the instance return
\* are strictly increasing in (file_id, offset).
C26_IdsMoveForward ==
  [][ (writer = "live" /\ SameWriter) =>
        /\ active_file_id' >= active_file_id
        /\ active_file_id' # active_file_id =>
             /\ active_file_id' = active_file_id + 1
             /\ IF Len(returned') = Len(returned)
                  THEN current_offset' = 0
                  ELSE /\ returned'[Len(returned')].location.file_id = active_file_id'
                       /\ returned'[Len(returned')].location.entry_offset = 0
                       /\ current_offset'
                            = returned'[Len(returned')].location.entry_size
        /\ \A i \in 1..Len(returned') : \A j \in 1..Len(returned') :
             (i < j /\ returned'[i].writer = returned'[j].writer) =>
               Before(returned'[i].location, returned'[j].location)
    ]_vars

\* one Writer returned two Locations, the second at offset 0 of the file it
\* rotated into, which is its active file
C26_Witness ==
  /\ Len(returned) = 2
  /\ returned[1].writer = returned[2].writer
  /\ returned[2].location.file_id = returned[1].location.file_id + 1
  /\ returned[2].location.entry_offset = 0
  /\ OpenWriter = returned[2].writer
  /\ active_file_id = returned[2].location.file_id

\* the step is a write_entry call that returned a Location
WriteStep == Len(returned') = Len(returned) + 1

LastReturned == returned'[Len(returned')]

\* C27 as claimed: rotation guards accumulated overflow only. A write_entry
\* made when the active file is empty (current_offset = 0) writes the entry
\* at offset 0 of that file without rotating, also when the entry is larger
\* than max_file_size, and no data file below the highest one is empty.
C27_NoRotationWhenEmpty ==
  [][ WriteStep =>
        /\ LastReturned.before.current_offset = 0 =>
             /\ LastReturned.location.file_id = LastReturned.before.active_file_id
             /\ active_file_id' = active_file_id
        /\ \A k \in DOMAIN files' :
             k < Max(DOMAIN files') => files'[k] # << >> ]_vars

\* C27 amended: the rotation rule looks at current_offset + size only. An
\* entry larger than max_file_size rotates on every write_entry, also when
\* the active file is empty (current_offset = 0): the entry is then written
\* whole at offset 0 of the next file, and the file that was active, if
\* nothing was pending for it, stays behind empty.
C27_OversizedAlwaysRotates ==
  [][ ( /\ WriteStep
        /\ SerializedSize(LastReturned.entry) > LastReturned.before.max_file_size ) =>
        /\ LastReturned.location.file_id = LastReturned.before.active_file_id + 1
        /\ LastReturned.location.entry_offset = 0
        /\ active_file_id' = active_file_id + 1
        /\ files'[active_file_id'] = _serialize_entry(LastReturned.entry)
        /\ ( /\ current_offset = 0
             /\ active_file_id \in DOMAIN files
             /\ files[active_file_id] = << >>
             /\ active_file_handle.buf = << >> ) =>
             files'[active_file_id] = << >> ]_vars

\* a Writer constructed on an empty directory was given an entry larger than
\* max_file_size as its first write: file 0 is empty and the entry stands
\* whole in file 1
C27_Witness ==
  /\ Len(returned) >= 1
  /\ returned[1].before.current_offset = 0
  /\ returned[1].before.active_file_id = 0
  /\ SerializedSize(returned[1].entry) > returned[1].before.max_file_size
  /\ returned[1].location.file_id = 1
  /\ files[0] = << >>
  /\ files[1] = _serialize_entry(returned[1].entry)

\* C28: the active file exists on disk. After a Writer was constructed, and
\* after every write_entry that returned a Location, with a rotation or
\* without, the file data_<active_file_id>.dat exists, even when nothing
\* has been written to it; a Writer constructed on a directory without data
\* files makes the set of ids in the directory {0}.
C28_ActiveFileExists ==
  [][ /\ InitStep =>
           /\ active_file_id' \in _get_existing_file_ids(files')
           /\ _get_file_name(active_file_id') \in listdir(files')
           /\ _get_existing_file_ids(files) = {} =>
                /\ _get_existing_file_ids(files') = { 0 }
                /\ files'[0] = << >>
      /\ WriteStep =>
           /\ active_file_id' \in _get_existing_file_ids(files')
           /\ active_file_id' = LastReturned.location.file_id ]_vars

\* the second Writer was constructed when the last file was full: its active
\* file exists and is empty; the first Writer had rotated into that last file
C28_Witness ==
  /\ OpenWriter = 2
  /\ w_ret.op = "init"
  /\ _get_existing_file_ids(files) = { 0, 1, 2 }
  /\ active_file_id = 2
  /\ files[2] = << >>
  /\ \E i \in 1..Len(returned) :
       /\ returned[i].location.file_id = 1
       /\ returned[i].before.active_file_id = 0

C30_OffsetTracksSize ==
  (writer = "live" /\ active_file_handle # None /\ ~active_file_handle.closed) =>
    /\ active_file_id \in DOMAIN files
    /\ current_offset = Len(files[active_file_id])
    /\ \A i \in 1..Len(returned) :
         returned[i].writer = count.writers => Intact(i)

\* the step is a write_entry call of the Writer instance that raised an error
FailedWriteStep ==
  /\ writer = "live"
  /\ SameWriter
  /\ count'.writes = count.writes + 1 \/ w_ret' # w_ret
  /\ w_ret'.op = "write_entry"
  /\ w_ret'.error # "none"

\* C31: a failed write leaves the Writer unchanged. Whenever write_entry
\* raises an error (failed rotation, failed write or flush), active_file_id
\* and current_offset have the values they had before the call, and no data
\* file has been created.
C31_FailedWriteUnchanged ==
  [][ FailedWriteStep =>
        /\ active_file_id' = active_file_id
        /\ current_offset' = current_offset
        /\ DOMAIN files' = DOMAIN files ]_vars

\* C32: handle validity. In every state, a handle of the Writer that is not
\* None is an open handle on data_<active_file_id>.dat, a file that exists,
\* also after a rotation whose open of the new file failed; and so a
\* write_entry that passes the "no active file handle" check either returns
\* a Location or fails with a WriterError, never with another error.
C32_HandleValidity ==
  (writer = "live" /\ active_file_handle # None) =>
    /\ ~active_file_handle.closed
    /\ active_file_handle.file_id = active_file_id
    /\ active_file_id \in DOMAIN files
    /\ w_ret.op = "write_entry" => w_ret.error \in { "none", "WriterError" }

\* what write_entry writes for each entry, with the size it computes
WrittenEntries ==
  { [ entry_size |-> total_size(entry),
      serialized_data |-> _serialize_entry(_calculate_crc(entry)) ] :
    entry \in Entries }

\* a data file holds exactly one entry, written at its offset 0, whose own
\* size is larger than max_size
OneOversizedEntry(data, max_size) ==
  \E written \in WrittenEntries :
    /\ written.entry_size > max_size
    /\ data = written.serialized_data

\* every data file is within max_size or is one oversized entry
SizeBound(fs, max_size) ==
  \A k \in DOMAIN fs :
    Len(fs[k]) <= max_size \/ OneOversizedEntry(fs[k], max_size)

\* the step is made with max_size the limit of the Writer, if there is one,
\* before and after it
FixedMaxFileSize(max_size) ==
  /\ writer = "live" => max_file_size = max_size
  /\ writer' = "live" => max_file_size' = max_size

\* C33: file size bound. With one max_file_size used throughout and no I/O
\* failure, every construction, write, close and restart keeps every data
\* file either no larger than max_file_size or made of exactly one entry,
\* at offset 0, whose own size exceeds max_file_size: a directory that is
\* within the bound stays within it, and the empty directory is.
C33_FileSizeBound ==
  [][ \A max_size \in MaxFileSizes :
        (FixedMaxFileSize(max_size) /\ SizeBound(files, max_size)) =>
          SizeBound(files', max_size) ]_vars

\* with the limit 22 used by both Writers, the first one wrote an entry of
\* 30 bytes, which is alone in its file, and the second one, after a
\* restart, an entry that fits
C33_Witness ==
  /\ Len(returned) = 2
  /\ returned[1].before.max_file_size = returned[2].before.max_file_size
  /\ returned[1].writer # returned[2].writer
  /\ returned[1].location.entry_size > returned[1].before.max_file_size
  /\ returned[2].location.entry_size <= returned[2].before.max_file_size
  /\ Len(files[returned[1].location.file_id]) > max_file_size
  /\ OneOversizedEntry(files[returned[1].location.file_id], max_file_size)
  /\ Len(files[returned[2].location.file_id]) = returned[2].location.entry_size

\* the byte ranges of the i-th and the j-th Location handed out have no byte
\* in common
Disjoint(i, j) ==
  \/ returned[i].location.file_id # returned[j].location.file_id
  \/ returned[i].location.entry_offset + returned[i].location.entry_size
       <= returned[j].location.entry_offset
  \/ returned[j].location.entry_offset + returned[j].location.entry_size
       <= returned[i].location.entry_offset

\* C34: Locations never overlap. Any two Locations that write_entry has
\* returned on the directory, by the same Writer or by two Writers of which
\* one followed the other, across rotations, restarts, crashes and failed
\* calls, have different file ids or disjoint byte ranges
\* [offset, offset + size).
C34_NoOverlap ==
  \A i, j \in 1..Len(returned) : i # j => Disjoint(i, j)

\* two Writers, one after the other, each returned a Location in the same
\* file, the second one behind the first
C34_Witness ==
  /\ Len(returned) = 2
  /\ returned[1].writer # returned[2].writer
  /\ returned[1].location.file_id = returned[2].location.file_id
  /\ returned[1].location.entry_offset + returned[1].location.entry_size
       <= returned[2].location.entry_offset

\* C35: every accepted entry is readable. For every entry for which
\* write_entry returned a Location, also one built with the constructor
\* whose key_size or value_size field is not the byte length of its key or
\* value, the header on disk holds the actual byte lengths, and every
\* read_entry of the Location succeeds with the same key and value.
C35_AcceptedIsReadable ==
  \A i \in 1..Len(returned) :
    /\ StoredKeySize(returned[i].location) = Len(encode_utf8(returned[i].entry.key))
    /\ StoredValueSize(returned[i].location) = Len(returned[i].entry.value)
    /\ \A n \in ReadsOf(i) :
         /\ reads[n].error = "none"
         /\ reads[n].entry.key = returned[i].entry.key
         /\ reads[n].entry.value = returned[i].entry.value

\* what a write_entry(entry) prepared as p gives when no I/O call fails: the
\* Location, the data files, and the position the Writer is left at
Outcome(p, entry) ==
  [ location |-> KVLocation(p.file_id, p.write_offset, p.entry_size, entry.timestamp),
    files |-> AppendTo(p.files, p.file_id, p.serialized_data),
    active_file_id |-> p.file_id,
    current_offset |-> advance_offset(p.write_offset, p.serialized_data) ]

\* the step constructs a Writer in the place of one that was closed, with
\* the same max_file_size: unprimed is the Writer that was not restarted,
\* primed the one that was
RestartStep == Closed /\ InitStep /\ max_file_size' = max_file_size

\* the restart found the active file full and the entry is larger than
\* max_file_size
FullThenOversized(entry) ==
  current_offset >= max_file_size /\ total_size(entry) > max_file_size

ClosedBetween(n, m) ==
  /\ n < m
  /\ reads[n].location.file_id = reads[m].location.file_id
  /\ reads[n].opened_at >= 0
  /\ ~reads[m].cached

\* C37: a Reader stays usable after close(). close() is not terminal: a
\* read_entry made after it opens the file of its Location again, at that
\* call, and returns what it returned before the close: the same outcome as
\* an earlier read of the same Location, and the entry that was written
\* there.
C37_UsableAfterClose ==
  \A n, m \in 1..Len(reads) :
    ClosedBetween(n, m) =>
      /\ reads[m].opened_at = reads[m].at
      /\ reads[n].location = reads[m].location =>
           /\ reads[m].error = reads[n].error
           /\ reads[m].message = reads[n].message
           /\ reads[m].entry = reads[n].entry
      /\ \A i \in 1..reads[m].at :
           returned[i].location = reads[m].location =>
             reads[m].error = "none" /\ reads[m].entry = returned[i].entry

\* an entry was read, the Reader was closed, and the same Location was read
\* again: the file was opened again and the same entry came back, and the
\* new handle is in the cache
C37_Witness ==
  /\ Len(reads) = 2
  /\ ClosedBetween(1, 2)
  /\ reads[1].location = reads[2].location
  /\ reads[2].error = "none"
  /\ reads[2].entry = reads[1].entry
  /\ reads[2].entry.value # << >>
  /\ reads[2].location.file_id \in DOMAIN file_handles

\* C38: the stored checksum is always the Writer's own. Whatever the crc
\* field of the entry given to write_entry holds, the checksum in the header
\* on disk is the CRC-32 over the entry's timestamp, key_size, value_size,
\* key bytes and value; the other fields are written as given; and the
\* caller's entry object is as it was before the call, its crc included.
C38_WritersOwnChecksum ==
  \A i \in 1..Len(returned) :
    /\ StoredCrc(returned[i].location)
         = crc32(PackBE(returned[i].given.timestamp, 8)
                 \o PackBE(returned[i].given.key_size, 4)
                 \o PackBE(returned[i].given.value_size, 4)
                 \o encode_utf8(returned[i].given.key) \o returned[i].given.value)
    /\ returned[i].entry = [ returned[i].given EXCEPT !.crc = StoredCrc(returned[i].location) ]
    /\ returned[i].argument = returned[i].given

\* an entry given with 123456 in its crc field was written and read back:
\* the checksum on disk, and in the entry read, is not the caller's, and the
\* caller's object still holds 123456
C38_Witness ==
  \E i \in 1..Len(returned) :
    /\ returned[i].given.crc = PackBE(123456, 4)
    /\ returned[i].argument.crc = PackBE(123456, 4)
    /\ StoredCrc(returned[i].location) # PackBE(123456, 4)
    /\ \E n \in ReadsOf(i) :
         /\ reads[n].error = "none"
         /\ reads[n].entry.crc = StoredCrc(returned[i].location)

====
